---- MODULE Spec2Model ----
(***************************************************************************)
(* Model of msui/mpl_map.py (MapCanvas): the synchronisation of the map    *)
(* items tree (flight tracks, trajectories) with the artists drawn on the  *)
(* map canvas of each view, MapCanvas.update_trajectory_items; the map     *)
(* layers of the canvas (graticule, coastlines, map boundary, continent    *)
(* fill) and their redraw after a change of the map coordinates; the great *)
(* circle points of gcpoints2 and gcpoints_path; and                       *)
(* SatelliteOverpassPatch.                                                 *)
(*                                                                         *)
(* The tree items live in trajectory_item_tree (titree); the accessors     *)
(* the canvas calls on them (parent, childItems, isVisible,                *)
(* getGxElementProperty, setGxElementProperty, getTimeMarkerIndexes) are   *)
(* modelled as plain lookups in the state below.  The drawing backend      *)
(* (matplotlib) is the set of live artists plus the log of the calls the   *)
(* last operation issued.                                                  *)
(***************************************************************************)
EXTENDS Integers, Sequences, FiniteSets, TLC

\* ---------------------------------------------------------------- bounds
MaxNodes == 3
MaxVal == 2
\* The largest difference of the map corners, in degrees.
MaxExtent == 441
\* The most map boundary artists and the most text labels a state holds.
MaxBoundaries == 2
MaxTexts == 6
\* The largest distance of two points (in units of 500 m) and the largest
\* point interval del_s (in km) of gcpoints2.
MaxDist == 7
MaxDelS == 2
\* The most waypoints of a path given to gcpoints_path.
MaxWaypoints == 3

\* ------------------------------------------------------------- constants
Nodes == 1..MaxNodes
RootItem == 1
NoItem == 0
\* The view identifiers under which the tree keeps visibility flags and plot
\* instances; Identifier is self.identifier of the canvas modelled here, the
\* other one belongs to another view that shows the same tree.
Views == {"view1", "view2"}
Identifier == "view1"
OtherView == "view2"
PropNames == {"colour", "linestyle", "linewidth", "timeMarkerInterval"}
Elements == {"lineplot", "timemarker"}
Kinds == {"Root", "FlightTrack", "Trajectory", "Variable", "Other"}
DrawModes == {"FLIGHT_TRACK_ADDED", "TRAJECTORY_DIR_ADDED", "MARKER_CHANGE", "DRAW_EVERYTHING"}
UpdateModes == {"GXPROPERTY_CHANGE", "VISIBILITY_CHANGE"}
Modes == DrawModes \cup UpdateModes

\* Python None, and a value wrapped so that it never compares equal to None.
None == <<>>
Some(v) == <<v>>
\* Python truthiness of a graphics property: None and 0 ('' / 0.0) are false.
Truthy(x) == x /= None /\ x /= Some(0)
PropValues == {None} \cup {Some(v) : v \in 0..MaxVal}
\* What getTimeMarkerIndexes returns: None (no markers) or the indexes.
MarkerValues == {None, Some({1})}

VARIABLES parentOf, kind, general, visibleInView, timeMarkerIndexes,
          traj_item_tree, gxInstances, artists, calls, visited, lastCall, repeated,
          appearance, kwargs, extent, map_parallels, map_meridians,
          map_coastlines, map_countries, cntrysegs, map_boundary, map_continents,
          mapArtists, trackline, patch, texts, gcpoints, region

treeVars == <<parentOf, kind, general, visibleInView>>
\* The map canvas: appearance settings, stored keywords, corner differences,
\* the layer handles and the artists of the layers on the axes.
mapVars == <<appearance, kwargs, extent, map_parallels, map_meridians,
             map_coastlines, map_countries, cntrysegs, map_boundary,
             map_continents, mapArtists>>
\* The satellite overpass patch drawn on the map.
satVars == <<trackline, patch, texts>>
vars == <<parentOf, kind, general, visibleInView, timeMarkerIndexes,
          traj_item_tree, gxInstances, artists, calls, visited, lastCall, repeated,
          appearance, kwargs, extent, map_parallels, map_meridians,
          map_coastlines, map_countries, cntrysegs, map_boundary, map_continents,
          mapArtists, trackline, patch, texts, gcpoints, region>>

\* A LagrantoMapItem test that lets variable items pass.
IsMapItemOrVariable(n) == kind[n] \in {"Root", "FlightTrack", "Trajectory", "Variable"}
\* isinstance(item, titree.LagrantoMapItem): the root, flight tracks and
\* trajectories; variable items are not map items.
IsLagrantoMapItem(n) == kind[n] \in {"Root", "FlightTrack", "Trajectory"}
\* isinstance(item, FlightTrackItem) or isinstance(item, TrajectoryItem)
IsPlottable(n) == kind[n] \in {"FlightTrack", "Trajectory"}

\* item.childItems, in order.
childItems(item) == SelectSeq([i \in 1..MaxNodes |-> i], LAMBDA c : parentOf[c] = item)

\* item.isVisible(self.identifier)
isVisible(item, view) == visibleInView[item][view]
\* item.getGxElementProperty("general", propName)
getGeneral(item, propName) == general[item][propName]
\* item.getGxElementProperty(element, "instance::<view>"); NoInstance stands
\* for the KeyError of a missing entry.
NoInstance == <<>>
getInstance(gx, item, element, view) == gx[item][element][view]
\* setInstance that stores the instance under every view identifier.
setInstanceAnyView(gx, item, element, view, h) ==
    [gx EXCEPT ![item][element] = [v \in Views |-> h]]
\* item.setGxElementProperty(element, "instance::<view>", h)
setInstance(gx, item, element, view, h) ==
    [gx EXCEPT ![item][element][view] = h]

\* A new artist of the backend: an object distinct from every artist that is
\* live on the canvas.  The identity of an artist that was removed and is
\* referenced no more may be used again.
NewArtist(art, item, view, element) ==
    LET g == CHOOSE g \in 0..Cardinality(art) :
                 /\ <<item, view, element, g>> \notin art
                 /\ \A k \in 0..(g - 1) : <<item, view, element, k>> \in art
    IN <<item, view, element, g>>

\* ------------------------------------------------ upward pass (612-637)
\* Defaults that supply a colour.
DefaultWithColour ==
    [visible |-> TRUE, gx |-> [p \in PropNames |-> IF p = "colour" THEN Some(1) ELSE None]]
\* Default values: the item is visible and inherits no other properties.
DefaultParentProperties ==
    [visible |-> TRUE, gx |-> [p \in PropNames |-> None]]

\* UpwardPass that keeps the visibility of the last ancestor only.
RECURSIVE UpwardPassLastVisible(_, _, _)
UpwardPassLastVisible(parent, view, pp) ==
    IF parent = NoItem THEN pp
    ELSE UpwardPassLastVisible(parentOf[parent], view,
            [visible |-> isVisible(parent, view),
             gx |-> [p \in PropNames |->
                        IF Truthy(getGeneral(parent, p)) THEN getGeneral(parent, p)
                        ELSE pp.gx[p]]])

RECURSIVE UpwardPass(_, _, _)
UpwardPass(parent, view, pp) ==
    IF parent = NoItem THEN pp
    ELSE UpwardPass(parentOf[parent], view,
            [visible |-> isVisible(parent, view) /\ pp.visible,
             gx |-> [p \in PropNames |->
                        IF Truthy(getGeneral(parent, p)) THEN getGeneral(parent, p)
                        ELSE pp.gx[p]]])

\* ---------------------------------------------- item properties (652-661)
\* ItemProperties in which the item's own value wins over the inherited one.
ItemPropertiesOwnWins(item, view, pp) ==
    [visible |-> isVisible(item, view) /\ pp.visible,
     gx |-> [p \in PropNames |->
                IF getGeneral(item, p) /= None THEN getGeneral(item, p) ELSE pp.gx[p]]]
ItemProperties(item, view, pp) ==
    [visible |-> isVisible(item, view) /\ pp.visible,
     gx |-> [p \in PropNames |->
                IF Truthy(pp.gx[p]) THEN pp.gx[p] ELSE getGeneral(item, p)]]

\* ------------------------------------------------------- backend calls
Call(op, h, item, args) == [op |-> op, h |-> h, item |-> item, args |-> args]

\* ReplaceLine that forgets to remove the old plot instances.
ReplaceLineKeepOld(item, ip, st, view) ==
    LET h == NewArtist(st.art, item, view, "lineplot")
    IN [st EXCEPT !.calls = @ \o
                     <<Call("plot", h, item,
                            [visible |-> ip.visible, colour |-> ip.gx["colour"],
                             linestyle |-> ip.gx["linestyle"],
                             linewidth |-> ip.gx["linewidth"]])>>,
                  !.art = st.art \cup {h},
                  !.gx = setInstance(st.gx, item, "lineplot", view, h)]

\* Remove old plot instances and plot new ones (710-727).
ReplaceLine(item, ip, st, view) ==
    LET old == getInstance(st.gx, item, "lineplot", view)
        rm == IF old /= NoInstance THEN <<Call("remove", old, item, <<>>)>> ELSE <<>>
        art1 == st.art \ {old}
        h == NewArtist(art1, item, view, "lineplot")
    IN [st EXCEPT !.calls = @ \o rm \o
                     <<Call("plot", h, item,
                            [visible |-> ip.visible, colour |-> ip.gx["colour"],
                             linestyle |-> ip.gx["linestyle"],
                             linewidth |-> ip.gx["linewidth"]])>>,
                  !.art = art1 \cup {h},
                  !.gx = setInstance(st.gx, item, "lineplot", view, h)]

\* ReplaceMarkers that forgets to remove the old time marker instance.
ReplaceMarkersKeepOld(item, ip, st, view) ==
    LET imarker == timeMarkerIndexes[item]
        h == NewArtist(st.art, item, view, "timemarker")
    IN IF imarker /= None
       THEN [st EXCEPT !.calls = @ \o
                          <<Call("scatter", h, item,
                                 [visible |-> ip.visible, colour |-> ip.gx["colour"],
                                  imarker |-> imarker])>>,
                       !.art = st.art \cup {h},
                       !.gx = setInstance(st.gx, item, "timemarker", view, h)]
       ELSE st

\* Remove the old time marker instance and scatter the new markers (729-747).
ReplaceMarkers(item, ip, st, view) ==
    LET old == getInstance(st.gx, item, "timemarker", view)
        rm == IF old /= NoInstance
              THEN <<Call("hide", old, item, [visible |-> FALSE]),
                     Call("remove", old, item, <<>>)>>
              ELSE <<>>
        art1 == st.art \ {old}
        imarker == timeMarkerIndexes[item]
        h == NewArtist(art1, item, view, "timemarker")
    IN IF imarker /= None
       THEN [st EXCEPT !.calls = @ \o rm \o
                          <<Call("scatter", h, item,
                                 [visible |-> ip.visible, colour |-> ip.gx["colour"],
                                  imarker |-> imarker])>>,
                       !.art = art1 \cup {h},
                       !.gx = setInstance(st.gx, item, "timemarker", view, h)]
       ELSE [st EXCEPT !.calls = @ \o rm, !.art = art1]

\* UpdateItem that plots the line again instead of updating it.
UpdateItemRedraw(item, ip, st, view) == ReplaceLine(item, ip, st, view)

\* GXPROPERTY_CHANGE / VISIBILITY_CHANGE (675-698): plt.setp on the instances
\* of this view.
UpdateItem(item, ip, st, view) ==
    LET line == getInstance(st.gx, item, "lineplot", view)
        mark == getInstance(st.gx, item, "timemarker", view)
        c1 == IF line /= NoInstance
              THEN <<Call("setp", line, item,
                          [visible |-> ip.visible, colour |-> ip.gx["colour"],
                           linestyle |-> ip.gx["linestyle"],
                           linewidth |-> ip.gx["linewidth"]])>>
              ELSE <<>>
        c2 == IF mark /= NoInstance
              THEN <<Call("setp", mark, item,
                          [visible |-> ip.visible, colour |-> ip.gx["colour"]])>>
              ELSE <<>>
    IN [st EXCEPT !.calls = @ \o c1 \o c2]

\* DrawItem that replaces the line in every draw mode and the markers in every
\* mode but MARKER_CHANGE.
DrawItemLineAlways(item, ip, st, view, mode) ==
    LET st1 == ReplaceLine(item, ip, st, view)
    IN IF mode /= "MARKER_CHANGE" THEN ReplaceMarkers(item, ip, st1, view) ELSE st1

\* The draw modes (700-747).
DrawItem(item, ip, st, view, mode) ==
    LET st1 == IF mode /= "MARKER_CHANGE" THEN ReplaceLine(item, ip, st, view) ELSE st
    IN ReplaceMarkers(item, ip, st1, view)

ProcessItem(item, ip, st, view, mode) ==
    IF ~IsPlottable(item) THEN st
    ELSE IF mode \in UpdateModes THEN UpdateItem(item, ip, st, view)
    ELSE IF mode \in DrawModes THEN DrawItem(item, ip, st, view, mode)
    ELSE st

\* Pushing every child of the item, variable items included.
PushedChildrenAll(item) == childItems(item)
\* The children of an item that are pushed onto the item stack: the instances
\* of LagrantoMapItem, whatever the item's visibility (663-667).
PushedChildren(item) == SelectSeq(childItems(item), IsLagrantoMapItem)

\* Iterative traversal over the item stack (642-747).
RECURSIVE Traverse(_, _, _, _)
Traverse(itemStack, st, view, mode) ==
    IF Len(itemStack) = 0 THEN st
    ELSE LET top == itemStack[Len(itemStack)]
             item == top[1]
             ip == ItemProperties(item, view, top[2])
             kids == PushedChildren(item)
             pushed == [i \in 1..Len(kids) |-> <<kids[i], ip>>]
             st1 == [st EXCEPT !.visited = Append(@, <<item, ip>>)]
         IN Traverse(SubSeq(itemStack, 1, Len(itemStack) - 1) \o pushed,
                     ProcessItem(item, ip, st1, view, mode), view, mode)

\* SyncPass that draws the canvas before the traversal.
SyncPassDrawFirst(item, view, mode) ==
    LET pp == UpwardPass(parentOf[item], view, DefaultParentProperties)
    IN Traverse(<<<<item, pp>>>>,
                [gx |-> gxInstances, art |-> artists,
                 calls |-> <<Call("draw", <<>>, NoItem, <<>>)>>, visited |-> <<>>],
                view, mode)

\* One complete pass of update_trajectory_items on an attached tree, for an
\* acceptable start item (605-750): the upward pass, the traversal and the
\* final canvas.draw().  Returns the instances, the live artists, the calls
\* issued and the items visited with their itemProperties.
SyncPass(item, view, mode) ==
    LET pp == UpwardPass(parentOf[item], view, DefaultParentProperties)
        st == Traverse(<<<<item, pp>>>>,
                       [gx |-> gxInstances, art |-> artists, calls |-> <<>>,
                        visited |-> <<>>],
                       view, mode)
    IN [st EXCEPT !.calls = Append(@, Call("draw", <<>>, NoItem, <<>>))]

\* ------------------------------------------------- the map layers (67-392)
\* The switches of the appearance dictionary; the colours are left out.
Flags == {"draw_graticule", "draw_coastlines", "fill_waterbodies", "fill_continents"}
default_appearance == [f \in Flags |-> TRUE]
\* An attribute that was never assigned: reading it raises AttributeError.
Unset == <<"unset">>
\* The truth value of a layer handle that is assigned: None is false, the
\* object a basemap draw method returned is true.
IsHandle(h) == h /= None /\ h /= Unset

\* The canvas object as the methods below read and change it; art is the set
\* of layer artists on the axes, calls the backend calls issued so far and
\* error the exception that ended the method ("" if none).
Canvas ==
    [appearance |-> appearance, kwargs |-> kwargs, extent |-> extent,
     map_parallels |-> map_parallels, map_meridians |-> map_meridians,
     map_coastlines |-> map_coastlines, map_countries |-> map_countries,
     cntrysegs |-> cntrysegs, map_boundary |-> map_boundary,
     map_continents |-> map_continents, art |-> mapArtists,
     calls |-> <<>>, error |-> ""]

\* The value of v, computed once, handed to F: the statements of a method run
\* one after the other on the object the statement before left.
With(v, F(_)) == CHOOSE r \in {F(x) : x \in {v}} : TRUE

\* A new artist of a map layer: <<layer, number, spacing>>, distinct from the
\* artists on the axes and from the handles still held.
NewMapArtist(used, layer, info) ==
    LET g == CHOOSE g \in 0..Cardinality(used) :
                 /\ \A a \in used : ~(a[1] = layer /\ a[2] = g)
                 /\ \A k \in 0..(g - 1) : \E a \in used : a[1] = layer /\ a[2] = k
    IN <<layer, g, info>>

\* self.attr = self.layer(...): the artist a basemap draw method returns is
\* put on the axes and stored in the attribute.
DrawLayer(cv, layer, info, attr) ==
    With(NewMapArtist(cv.art, layer, info), LAMBDA h :
        [cv EXCEPT !.art = @ \cup {h},
                   !.calls = Append(@, Call(layer, h, NoItem, <<>>)),
                   ![attr] = h])
\* RemoveArtist that leaves the artist on the axes.
RemoveArtistKeep(cv, h) ==
    [cv EXCEPT !.calls = Append(@, Call("remove", h, NoItem, <<>>))]
\* handle.remove()
RemoveArtist(cv, h) ==
    [cv EXCEPT !.art = @ \ {h}, !.calls = Append(@, Call("remove", h, NoItem, <<>>))]
\* self.ax.figure.canvas.draw()
CanvasDraw(cv) == [cv EXCEPT !.calls = Append(@, Call("draw", <<>>, NoItem, <<>>))]

\* The spacing values of the graticule, in 1/100 degree (263).
spacingValues == <<5, 10, 25, 50, 100, 200, 500, 1000, 2000, 3000, 4000>>
\* The candidates that are not smaller than delta / 11.
SpacingCandidatesNotStrict(delta) ==
    SelectSeq(spacingValues, LAMBDA i : 11 * i >= 100 * delta)
\* [i for i in spacingValues if i > delta/11.] for a corner difference of
\* delta degrees (266-267).
SpacingCandidates(delta) ==
    SelectSeq(spacingValues, LAMBDA i : 11 * i > 100 * delta)

\* _draw_auto_graticule that uses the largest spacing if none is larger.
DrawGraticuleLargestSpacing(cv) ==
    With(SpacingCandidates(cv.extent.lon) \o <<spacingValues[Len(spacingValues)]>>, LAMBDA lonC :
    With(SpacingCandidates(cv.extent.lat) \o <<spacingValues[Len(spacingValues)]>>, LAMBDA latC :
    With(DrawLayer(cv, "drawparallels", latC[1], "map_parallels"), LAMBDA c1 :
        DrawLayer(c1, "drawmeridians", lonC[1], "map_meridians"))))
\* _draw_auto_graticule (183-285) for the projections whose corners are the
\* map corners: the first candidate of each direction, an IndexError if there
\* is none, then the parallels and the meridians.
_draw_auto_graticule(cv) ==
    With(SpacingCandidates(cv.extent.lon), LAMBDA lonC :
    With(SpacingCandidates(cv.extent.lat), LAMBDA latC :
        IF Len(lonC) = 0 \/ Len(latC) = 0
        THEN [cv EXCEPT !.error = "IndexError"]
        ELSE With(DrawLayer(cv, "drawparallels", latC[1], "map_parallels"), LAMBDA c1 :
                 DrawLayer(c1, "drawmeridians", lonC[1], "map_meridians"))))

\* The removal of the graticule (308-321).
RemoveGraticule(cv) ==
    With(RemoveArtist(cv, cv.map_parallels), LAMBDA c1 :
    With(RemoveArtist(c1, c1.map_meridians), LAMBDA c2 :
        CanvasDraw([c2 EXCEPT !.map_parallels = None, !.map_meridians = None])))

\* set_graticule_visible(visible) (288-321).
set_graticule_visible(cv, visible) ==
    With([cv EXCEPT !.appearance["draw_graticule"] = visible], LAMBDA c1 :
        IF c1.map_parallels = Unset \/ c1.map_meridians = Unset
        THEN [c1 EXCEPT !.error = "AttributeError"]
        ELSE IF visible /\ c1.map_parallels = None /\ c1.map_meridians = None
        THEN With(_draw_auto_graticule(c1), LAMBDA c2 :
                 IF c2.error /= "" THEN c2 ELSE CanvasDraw(c2))
        ELSE IF ~visible /\ IsHandle(c1.map_parallels) /\ IsHandle(c1.map_meridians)
        THEN RemoveGraticule(c1)
        ELSE c1)

\* set_fillcontinents_visible(visible) (324-357), the colours left as they are.
set_fillcontinents_visible(cv, visible) ==
    With([cv EXCEPT !.appearance["fill_continents"] = visible], LAMBDA c1 :
        IF visible /\ c1.map_continents = None
        THEN CanvasDraw(DrawLayer(c1, "fillcontinents", 0, "map_continents"))
        ELSE IF ~visible /\ IsHandle(c1.map_continents)
        THEN CanvasDraw([RemoveArtist(c1, c1.map_continents) EXCEPT !.map_continents = None])
        ELSE IF visible /\ IsHandle(c1.map_continents)
        THEN With(RemoveArtist(c1, c1.map_continents), LAMBDA c2 :
                 CanvasDraw(DrawLayer(c2, "fillcontinents", 0, "map_continents")))
        ELSE c1)

\* self.map_coastlines = self.drawcoastlines(); self.map_countries =
\* self.drawcountries(), which loads the country segments (111-112, 365-366).
DrawCoastlines(cv) ==
    With(DrawLayer(cv, "drawcoastlines", 0, "map_coastlines"), LAMBDA c1 :
    With(DrawLayer(c1, "drawcountries", 0, "map_countries"), LAMBDA c2 :
        [c2 EXCEPT !.cntrysegs = TRUE]))
\* The removal of the coastlines and country borders (369-374).
RemoveCoastlines(cv) ==
    With(RemoveArtist(cv, cv.map_coastlines), LAMBDA c1 :
    With(RemoveArtist(c1, c1.map_countries), LAMBDA c2 :
        IF ~c2.cntrysegs THEN [c2 EXCEPT !.error = "AttributeError"]
        ELSE CanvasDraw([c2 EXCEPT !.cntrysegs = FALSE, !.map_coastlines = None,
                                   !.map_countries = None])))

\* set_coastlines_visible(visible) (360-374).
set_coastlines_visible(cv, visible) ==
    With([cv EXCEPT !.appearance["draw_coastlines"] = visible], LAMBDA c1 :
        IF visible /\ c1.map_coastlines = None /\ c1.map_countries = None
        THEN CanvasDraw(DrawCoastlines(c1))
        ELSE IF ~visible /\ IsHandle(c1.map_coastlines) /\ IsHandle(c1.map_countries)
        THEN RemoveCoastlines(c1)
        ELSE c1)

\* set_mapboundary_visible that leaves the flag of the appearance as it is.
SetMapboundaryKeepFlag(cv, visible) ==
    IF ~visible /\ IsHandle(cv.map_boundary)
    THEN CanvasDraw([RemoveArtist(cv, cv.map_boundary) EXCEPT !.map_boundary = None])
    ELSE IF visible
    THEN CanvasDraw(DrawLayer(cv, "drawmapboundary", 0, "map_boundary"))
    ELSE cv
\* set_mapboundary_visible(visible) (377-392).
set_mapboundary_visible(cv, visible) ==
    With([cv EXCEPT !.appearance["fill_waterbodies"] = visible], LAMBDA c1 :
        IF ~visible /\ IsHandle(c1.map_boundary)
        THEN CanvasDraw([RemoveArtist(c1, c1.map_boundary) EXCEPT !.map_boundary = None])
        ELSE IF visible
        THEN CanvasDraw(DrawLayer(c1, "drawmapboundary", 0, "map_boundary"))
        ELSE c1)

\* The graticule of __init__ (141-148): a failure is logged.
InitGraticuleLayer(cv) ==
    IF cv.appearance["draw_graticule"]
    THEN With(_draw_auto_graticule(cv), LAMBDA a :
             IF a.error /= ""
             THEN [a EXCEPT !.error = "",
                            !.calls = Append(@, Call("logging.error", <<>>, NoItem, <<>>))]
             ELSE a)
    ELSE [cv EXCEPT !.map_parallels = None, !.map_meridians = None]

\* __init__ (67-158) on a canvas object, with the appearance argument (None if
\* not given) and the corner differences of the keywords: the appearance, the
\* coastlines and borders, the map boundary, the continents and the
\* graticule.  No tree is given: the tree connected before stays.  The
\* keywords stored in self.kwargs (106) are those left after the named
\* parameters are taken out, so they hold no appearance.
__init__(cv, param, ext) ==
    With([cv EXCEPT !.appearance = IF param /= None THEN param[1] ELSE @,
                    !.kwargs = [appearance |-> None],
                    !.extent = ext], LAMBDA c0 :
    With(IF c0.appearance["draw_coastlines"] THEN DrawCoastlines(c0)
         ELSE [c0 EXCEPT !.map_coastlines = None, !.map_countries = None], LAMBDA c1 :
    With(IF c1.appearance["fill_waterbodies"]
         THEN DrawLayer(c1, "drawmapboundary", 0, "map_boundary")
         ELSE [c1 EXCEPT !.map_boundary = None], LAMBDA c2 :
    With(IF c2.appearance["fill_continents"]
         THEN DrawLayer(c2, "fillcontinents", 0, "map_continents")
         ELSE [c2 EXCEPT !.map_continents = None], LAMBDA c3 :
        InitGraticuleLayer(c3)))))

\* The object before __init__ has run: no attribute is assigned.
BlankCanvas(ext) ==
    [appearance |-> default_appearance, kwargs |-> [appearance |-> None], extent |-> ext,
     map_parallels |-> Unset, map_meridians |-> Unset,
     map_coastlines |-> Unset, map_countries |-> Unset,
     cntrysegs |-> FALSE, map_boundary |-> Unset,
     map_continents |-> Unset, art |-> {}, calls |-> <<>>, error |-> ""]

\* The removal of the coastlines, the country borders and the map boundary in
\* update_with_coordinate_change (441-464); the handles are left as they are.
RemoveCoastAndBoundary(cv) ==
    With(IF IsHandle(cv.map_coastlines) THEN RemoveArtist(cv, cv.map_coastlines)
         ELSE cv, LAMBDA c1 :
    With(IF IsHandle(c1.map_countries)
         THEN [RemoveArtist(c1, c1.map_countries) EXCEPT !.cntrysegs = FALSE]
         ELSE c1, LAMBDA c2 :
        IF IsHandle(c2.map_boundary) THEN RemoveArtist(c2, c2.map_boundary) ELSE c2))

\* The removal of the current map artists in update_with_coordinate_change
\* (437-468); the flags of the graticule and of the continents are restored.
RemoveMapArtists(cv) ==
    With(set_graticule_visible(cv, FALSE), LAMBDA c1 :
        IF c1.error /= "" THEN c1
        ELSE With(RemoveCoastAndBoundary(
                      [c1 EXCEPT !.appearance["draw_graticule"] =
                                     cv.appearance["draw_graticule"]]), LAMBDA c2 :
             With(set_fillcontinents_visible(c2, FALSE), LAMBDA c3 :
                 [c3 EXCEPT !.appearance["fill_continents"] =
                                c2.appearance["fill_continents"]])))

\* update_with_coordinate_change(kwargs_update) (395-475) up to the call of
\* __init__: ext is the corner differences read from the axes, kwargs_update
\* None or an appearance to store with the keywords.
update_with_coordinate_change(cv, ext, kwargs_update) ==
    With(RemoveMapArtists(cv), LAMBDA c1 :
        IF c1.error /= "" THEN c1
        ELSE With(IF kwargs_update /= None
                  THEN [c1 EXCEPT !.kwargs.appearance = kwargs_update]
                  ELSE c1, LAMBDA c2 :
                 __init__(c2, c2.kwargs.appearance, ext)))

\* ------------------------------- the map corners (183-259 and 410-435)
SetMin(S) == CHOOSE x \in S : \A y \in S : x <= y
SetMax(S) == CHOOSE x \in S : \A y \in S : y <= x
\* Part a) of _draw_auto_graticule (202-259): the longitudes and latitudes
\* between which meridians and parallels are drawn.  a holds the projection,
\* the projection centre (projparams x_0, y_0, lat_0), the upper right map
\* corner in projection coordinates, the map corners in degrees and the
\* longitudes and latitudes computed from the axes corners and the middles
\* of the upper and lower axes boundary.
GraticuleRange(a) ==
    IF a.projection \in {"stere", "lcc"}
    THEN LET contains_centre == a.centre_x < a.urcrnrx /\ a.centre_y < a.urcrnry
             lons == {a.upperLeftCornerLon, a.llcrnrlon, a.urcrnrlon,
                      a.lowerRightCornerLon}
             lats == {a.middleLowerBoundaryLat, a.lowerRightCornerLat, a.llcrnrlat,
                      a.middleUpperBoundaryLat, a.upperLeftCornerLat, a.urcrnrlat}
         IN [mapLonStart |-> IF contains_centre THEN -180 ELSE SetMin(lons),
             mapLonStop |-> IF contains_centre THEN 180 ELSE SetMax(lons),
             mapLatStart |-> IF contains_centre THEN SetMin(lats \cup {a.centre_lat})
                             ELSE SetMin(lats),
             mapLatStop |-> IF contains_centre THEN SetMax(lats \cup {a.centre_lat})
                            ELSE SetMax(lats)]
    ELSE [mapLonStart |-> a.llcrnrlon, mapLonStop |-> a.urcrnrlon,
          mapLatStart |-> a.llcrnrlat, mapLatStop |-> a.urcrnrlat]
\* deltaLon and deltaLat (264-265)
RangeExtent(r) ==
    [lon |-> r.mapLonStop - r.mapLonStart, lat |-> r.mapLatStop - r.mapLatStart]

\* A multiple of the spacing found by cutting the quotient towards zero.
SnapTowardsZero(x, spacing) ==
    IF x >= 0 THEN (x \div spacing) * spacing ELSE -(((-x) \div spacing) * spacing)
\* np.floor(x / spacing) * spacing, x and spacing in 1/100 degree (273, 275).
SnapDown(x, spacing) == (x \div spacing) * spacing
\* np.ceil(x / spacing) * spacing, x and spacing in 1/100 degree (274, 276).
SnapUp(x, spacing) == -(((-x) \div spacing) * spacing)
\* Parts b) and c) of _draw_auto_graticule (263-276) for the range r in
\* degrees: the spacings and the values at which the meridians and parallels
\* start and stop, in 1/100 degree; None if line 266 or 267 finds no spacing
\* and raises the IndexError.
GraticuleBounds(r) ==
    With(SpacingCandidates(RangeExtent(r).lon), LAMBDA lonC :
    With(SpacingCandidates(RangeExtent(r).lat), LAMBDA latC :
        IF Len(lonC) = 0 \/ Len(latC) = 0 THEN None
        ELSE [spacingLon |-> lonC[1], spacingLat |-> latC[1],
              lonStart |-> SnapDown(100 * r.mapLonStart, lonC[1]),
              lonStop |-> SnapUp(100 * r.mapLonStop, lonC[1]),
              latStart |-> SnapDown(100 * r.mapLatStart, latC[1]),
              latStop |-> SnapUp(100 * r.mapLatStop, latC[1])]))

\* The corners kept for the rebuild of the map (410-435): k holds the
\* projection and the corner longitudes and latitudes computed from the
\* axes.  For the cylindrical projection the latitudes are cut at 90 and -90
\* and the longitudes moved by 360 degrees, one test after the other.
ClampCorners(k) ==
    IF k.projection = "cyl"
    THEN With([k EXCEPT !.urcrnrlat = IF @ > 90 THEN 90 ELSE @], LAMBDA k1 :
         With([k1 EXCEPT !.llcrnrlat = IF @ < -90 THEN -90 ELSE @], LAMBDA k2 :
         With(IF k2.llcrnrlon < -360 \/ k2.urcrnrlon < -360
              THEN [k2 EXCEPT !.llcrnrlon = @ + 360, !.urcrnrlon = @ + 360]
              ELSE k2, LAMBDA k3 :
              IF k3.llcrnrlon > 360 \/ k3.urcrnrlon > 360
              THEN [k3 EXCEPT !.llcrnrlon = @ - 360, !.urcrnrlon = @ - 360]
              ELSE k3)))
    ELSE k
\* The corner differences of the map built from the corners.
CornerExtent(k) ==
    [lon |-> k.urcrnrlon - k.llcrnrlon, lat |-> k.urcrnrlat - k.llcrnrlat]

\* ------------------------------------ SatelliteOverpassPatch (823-917)
\* The patch object as its methods read and change it; art is the set of
\* artists on the axes of the map.
SatPatch == [trackline |-> trackline, patch |-> patch, texts |-> texts,
             art |-> mapArtists, calls |-> <<>>]
\* The handles the list self.texts holds.
TextHandles(sp) == {sp.texts[i] : i \in DOMAIN sp.texts}

\* draw() (852-889): the track line, the swath patch and the two time labels,
\* which are appended to self.texts.
SatDraw(sp) ==
    LET t == NewMapArtist(sp.art \cup TextHandles(sp), "plot", 0)
        p == NewMapArtist(sp.art \cup TextHandles(sp), "add_patch", 0)
        x1 == NewMapArtist(sp.art \cup TextHandles(sp), "text", 0)
        x2 == NewMapArtist(sp.art \cup TextHandles(sp) \cup {x1}, "text", 0)
    IN [sp EXCEPT !.trackline = t, !.patch = p, !.texts = @ \o <<x1, x2>>,
                  !.art = @ \cup {t, p, x1, x2},
                  !.calls = @ \o <<Call("plot", t, NoItem, <<>>),
                                   Call("add_patch", p, NoItem, <<>>),
                                   Call("text", x1, NoItem, <<>>),
                                   Call("text", x2, NoItem, <<>>),
                                   Call("draw", <<>>, NoItem, <<>>)>>]

\* remove() (901-917): the track line and the swath patch are removed and set
\* to None; every element of self.texts is removed, a failure passed over.
SatRemove(sp) ==
    LET c1 == IF sp.trackline /= None
              THEN [sp EXCEPT !.art = @ \ {sp.trackline}, !.trackline = None,
                              !.calls = Append(@, Call("remove", sp.trackline, NoItem, <<>>))]
              ELSE sp
        c2 == IF c1.patch /= None
              THEN [c1 EXCEPT !.art = @ \ {c1.patch}, !.patch = None,
                              !.calls = Append(@, Call("remove", c1.patch, NoItem, <<>>))]
              ELSE c1
    IN [c2 EXCEPT !.art = @ \ TextHandles(c2),
                  !.calls = @ \o [i \in DOMAIN c2.texts |->
                                     Call("remove", c2.texts[i], NoItem, <<>>)]]

\* update() (892-898)
SatUpdate(sp) == With(SatRemove(sp), SatDraw)

\* ---------------------------------------------------- gcpoints2 (753-772)
\* The end points, as (lon, lat).
Points == {<<"lonlat", lon, lat>> : lon \in {0, 10}, lat \in {0, 50}}
\* The number of whole steps of del_s in the distance, without the half step.
NpointsNoHalfStep(d, del_s) == d \div (2 * del_s)
\* A number of points that is never zero.
NpointsAtLeastOne(d, del_s) == (d + 2 * del_s) \div (2 * del_s)
\* int((dist + 0.5*1000.*del_s) / (1000.*del_s)) for a distance of d * 500 m.
Npoints(d, del_s) == (d + del_s) \div (2 * del_s)
\* gc.npts(lon1, lat1, lon2, lat2, npoints): the points the solver returns.
gc_npts(p1, p2, npoints) == [k \in 1..npoints |-> <<"npts", p1, p2, npoints, k>>]
\* self(lons, lats): the map coordinates of a point.
MapCoords(p) == <<"xy", p>>
\* gcpoints2 that leaves out the end point.
Gcpoints2NoEnd(p1, p2, d, del_s, map_coords) ==
    IF del_s = 0 THEN [error |-> "ZeroDivisionError", points |-> <<>>]
    ELSE LET lonlats == <<p1>> \o gc_npts(p1, p2, Npoints(d, del_s))
         IN [error |-> "",
             points |-> IF map_coords THEN [i \in DOMAIN lonlats |-> MapCoords(lonlats[i])]
                        ELSE lonlats]
\* gcpoints2(lon1, lat1, lon2, lat2, del_s, map_coords): the lists lons and
\* lats as one list of points.
gcpoints2(p1, p2, d, del_s, map_coords) ==
    IF del_s = 0 THEN [error |-> "ZeroDivisionError", points |-> <<>>]
    ELSE LET lonlats == <<p1>> \o gc_npts(p1, p2, Npoints(d, del_s)) \o <<p2>>
         IN [error |-> "",
             points |-> IF map_coords THEN [i \in DOMAIN lonlats |-> MapCoords(lonlats[i])]
                        ELSE lonlats]

\* ------------------------------------------------ gcpoints_path (775-807)
\* The longitudes and latitudes of the waypoints, and every list of at most
\* n elements of a set.
Lons == {0, 10}
Lats == {0, 50}
SeqsUpTo(S, n) == UNION {[1..k -> S] : k \in 0..n}
\* (lons[i], lats[i])
Waypoint(lons, lats, i) == <<"lonlat", lons[i], lats[i]>>
RECURSIVE Flatten(_)
Flatten(ss) == IF ss = <<>> THEN <<>> ELSE Head(ss) \o Flatten(Tail(ss))
\* A round of the loop that appends the start point of the segment as well.
SegmentOutputWithStart(w1, w2, d, del_s) ==
    <<w1>> \o gc_npts(w1, w2, Npoints(d, del_s)) \o <<w2>>
\* One round of the loop (785-802): the points of the solver for the segment
\* from w1 to w2 of distance d, then w2.
SegmentOutput(w1, w2, d, del_s) ==
    gc_npts(w1, w2, Npoints(d, del_s)) \o <<w2>>
\* gcpoints_path that accepts a single waypoint.
GcpointsPathOneWaypoint(lons, lats, ds, del_s, map_coords) ==
    IF Len(lons) /= Len(lats) \/ Len(lons) = 0
    THEN [error |-> "AssertionError", points |-> <<>>]
    ELSE IF del_s = 0 /\ Len(lons) > 1
    THEN [error |-> "ZeroDivisionError", points |-> <<>>]
    ELSE With(<<Waypoint(lons, lats, 1)>> \o
              Flatten([i \in 1..(Len(lons) - 1) |->
                          SegmentOutput(Waypoint(lons, lats, i),
                                        Waypoint(lons, lats, i + 1), ds[i], del_s)]),
              LAMBDA gc :
                 [error |-> "",
                  points |-> IF map_coords THEN [i \in DOMAIN gc |-> MapCoords(gc[i])]
                             ELSE gc])
\* gcpoints_path(lons, lats, del_s, map_coords) (775-807); ds[i] is the
\* distance gc.inv gives for segment i.  The two assert statements come
\* first, the division by del_s in the first round of the loop.
gcpoints_path(lons, lats, ds, del_s, map_coords) ==
    IF Len(lons) /= Len(lats)
    THEN [error |-> "AssertionError", points |-> <<>>]
    ELSE IF ~(Len(lons) > 1)
    THEN [error |-> "AssertionError", points |-> <<>>]
    ELSE IF del_s = 0
    THEN [error |-> "ZeroDivisionError", points |-> <<>>]
    ELSE With(<<Waypoint(lons, lats, 1)>> \o
              Flatten([i \in 1..(Len(lons) - 1) |->
                          SegmentOutput(Waypoint(lons, lats, i),
                                        Waypoint(lons, lats, i + 1), ds[i], del_s)]),
              LAMBDA gc :
                 [error |-> "",
                  points |-> IF map_coords THEN [i \in DOMAIN gc |-> MapCoords(gc[i])]
                             ELSE gc])

\* ------------------------------------------------------------------ Init
\* The trees: item 1 is the root, every other item hangs below an earlier map
\* item; flight tracks hang below the root, trajectories and variables below
\* a flight track or trajectory.
TreeOK(p, k) ==
    /\ p[RootItem] = NoItem /\ k[RootItem] = "Root"
    /\ \A n \in Nodes \ {RootItem} :
          /\ p[n] \in 1..(n - 1)
          /\ k[p[n]] \in {"Root", "FlightTrack", "Trajectory"}
          /\ k[n] /= "Root"
          /\ k[n] = "FlightTrack" => p[n] = RootItem
          /\ k[n] \in {"Trajectory", "Variable"} => p[n] /= RootItem

NoCall == [op |-> "none", item |-> NoItem, mode |-> "", result |-> "", args |-> <<>>]

\* The canvas before a tree is connected to it.  The other view has drawn the
\* tree and holds an instance of every element of every plottable item.
InitCanvas ==
    /\ traj_item_tree = FALSE
    /\ gxInstances = [n \in Nodes |-> [e \in Elements |-> [v \in Views |->
          IF v = OtherView /\ IsPlottable(n)
          THEN <<n, v, e, 0>> ELSE NoInstance]]]
    /\ artists = {}
    /\ calls = <<>>
    /\ visited = <<>>
    /\ lastCall = NoCall
    /\ repeated = FALSE

\* ------------------------------------------------ actions of the map canvas
\* The canvas variables take the values of the canvas object cv.
CanvasIs(cv) ==
    /\ appearance = cv.appearance /\ kwargs = cv.kwargs /\ extent = cv.extent
    /\ map_parallels = cv.map_parallels /\ map_meridians = cv.map_meridians
    /\ map_coastlines = cv.map_coastlines /\ map_countries = cv.map_countries
    /\ cntrysegs = cv.cntrysegs /\ map_boundary = cv.map_boundary
    /\ map_continents = cv.map_continents /\ mapArtists = cv.art
SetCanvas(cv) ==
    /\ appearance' = cv.appearance /\ kwargs' = cv.kwargs /\ extent' = cv.extent
    /\ map_parallels' = cv.map_parallels /\ map_meridians' = cv.map_meridians
    /\ map_coastlines' = cv.map_coastlines /\ map_countries' = cv.map_countries
    /\ cntrysegs' = cv.cntrysegs /\ map_boundary' = cv.map_boundary
    /\ map_continents' = cv.map_continents /\ mapArtists' = cv.art
MapCall(op, args, cv) ==
    [op |-> op, item |-> NoItem, mode |-> "",
     result |-> IF cv.error = "" THEN "ok" ELSE cv.error, args |-> args]

\* A method of the canvas that touches the map layers only.
LayerMethod(op, args, cv) ==
    /\ SetCanvas(cv)
    /\ calls' = cv.calls
    /\ lastCall' = MapCall(op, args, cv)
    /\ visited' = <<>>
    /\ repeated' = FALSE
    /\ UNCHANGED <<treeVars, timeMarkerIndexes, traj_item_tree, gxInstances, artists>>
    /\ UNCHANGED <<satVars, gcpoints, region>>

SetGraticuleVisible ==
    \E visible \in BOOLEAN : \E cv \in {set_graticule_visible(Canvas, visible)} :
        LayerMethod("set_graticule_visible", <<visible>>, cv)
SetFillcontinentsVisible ==
    \E visible \in BOOLEAN : \E cv \in {set_fillcontinents_visible(Canvas, visible)} :
        LayerMethod("set_fillcontinents_visible", <<visible>>, cv)
SetCoastlinesVisible ==
    \E visible \in BOOLEAN : \E cv \in {set_coastlines_visible(Canvas, visible)} :
        LayerMethod("set_coastlines_visible", <<visible>>, cv)
NumBoundaries(art) == Cardinality({a \in art : a[1] = "drawmapboundary"})
SetMapboundaryVisible ==
    \E visible \in BOOLEAN : \E cv \in {set_mapboundary_visible(Canvas, visible)} :
        /\ NumBoundaries(cv.art) <= MaxBoundaries
        /\ LayerMethod("set_mapboundary_visible", <<visible>>, cv)

\* The corner differences (lon, lat) of the maps, in degrees.
MapExtents == {[lon |-> 55, lat |-> 2], [lon |-> MaxExtent, lat |-> 55]}
\* The appearance a caller passes with the keywords to update.
KwargsUpdates == {None, Some(default_appearance), Some([f \in Flags |-> FALSE])}

\* TreeRedraw that replaces the time markers only.
TreeRedrawMarkersOnly ==
    IF traj_item_tree THEN SyncPass(RootItem, Identifier, "MARKER_CHANGE")
    ELSE [gx |-> gxInstances, art |-> artists, calls |-> <<>>, visited |-> <<>>]
\* self.update_trajectory_items() (477): a DRAW_EVERYTHING pass from the root
\* if a tree is connected.
TreeRedraw ==
    IF traj_item_tree THEN SyncPass(RootItem, Identifier, "DRAW_EVERYTHING")
    ELSE [gx |-> gxInstances, art |-> artists, calls |-> <<>>, visited |-> <<>>]

\* update_with_coordinate_change(kwargs_update) (395-477) on a map whose
\* corners, read from the axes, differ by ext.
Rebuild(ext, kwargs_update) ==
    \E cv \in {update_with_coordinate_change(Canvas, ext, kwargs_update)} :
        /\ SetCanvas(cv)
        /\ lastCall' = MapCall("update_with_coordinate_change", <<kwargs_update>>, cv)
        /\ repeated' = FALSE
        /\ IF cv.error /= ""
           THEN /\ calls' = cv.calls
                /\ visited' = <<>>
                /\ UNCHANGED <<gxInstances, artists>>
           ELSE \E st \in {TreeRedraw} :
                   /\ calls' = cv.calls \o st.calls
                   /\ visited' = st.visited
                   /\ gxInstances' = st.gx
                   /\ artists' = st.art
        /\ UNCHANGED <<treeVars, timeMarkerIndexes, traj_item_tree, satVars, gcpoints>>
UpdateWithCoordinateChange ==
    \E ext \in MapExtents, kwargs_update \in KwargsUpdates :
        Rebuild(ext, kwargs_update) /\ UNCHANGED region

\* update_with_coordinate_change() with the corners computed from the axes
\* held in region.args: the corners are cut and moved (410-435), the map is
\* rebuilt with them.
UpdateFromAxes ==
    /\ lastCall.op = "none"
    /\ \E k \in {ClampCorners(region.args)} :
          /\ region' = [region EXCEPT !.out = k]
          /\ Rebuild(CornerExtent(k), None)

\* set_graticule_visible(True) on a map without graticule, with the
\* projection and the corners held in region.args: the range of the
\* graticule (202-259), its spacing and its lines.
ShowGraticuleFromAxes ==
    /\ lastCall.op = "none"
    /\ \E r \in {GraticuleRange(region.args)} :
       \E cv \in {set_graticule_visible([Canvas EXCEPT !.extent = RangeExtent(r)], TRUE)} :
          /\ region' = [region EXCEPT !.out = r, !.bounds = GraticuleBounds(r)]
          /\ SetCanvas(cv)
          /\ calls' = cv.calls
          /\ lastCall' = MapCall("set_graticule_visible", <<TRUE>>, cv)
          /\ visited' = <<>>
          /\ repeated' = FALSE
          /\ UNCHANGED <<treeVars, timeMarkerIndexes, traj_item_tree, gxInstances, artists>>
          /\ UNCHANGED <<satVars, gcpoints>>

\* ------------------------------------------ the tree's dataChanged signal
\* A model index: the item it points to and its column.
Columns == {0, 1}
\* The start item taken from a comparison of the indexes.
EventItemByIndex(index1, index2) == IF index1 = index2 THEN index1[1] ELSE NoItem
\* item if item == item2 else None (554)
EventItem(index1, index2) == IF index1[1] = index2[1] THEN index1[1] ELSE NoItem

\* An event test that only looks for the tree.
EventIgnoredWithoutTreeOnly(index1) == ~traj_item_tree
\* The event is dropped: no tree is connected (544-545) or the item of the
\* first index is no LagrantoMapItem (550).
EventIgnored(index1) == ~traj_item_tree \/ ~IsLagrantoMapItem(index1[1])

\* update_from_trajectory_tree(index1, index2) (536-555); lastChange is what
\* the tree's getLastChange() returns.
update_from_trajectory_tree(index1, index2, lastChange) ==
    LET item == EventItem(index1, index2)
        call == [op |-> "update_from_trajectory_tree", item |-> item,
                 mode |-> lastChange, result |-> "", args |-> <<index1, index2>>]
    IN
    IF EventIgnored(index1)
    THEN /\ lastCall' = [call EXCEPT !.result = "return"]
         /\ repeated' = FALSE
         /\ calls' = <<>>
         /\ visited' = <<>>
         /\ UNCHANGED <<treeVars, timeMarkerIndexes, traj_item_tree, gxInstances, artists>>
         /\ UNCHANGED <<mapVars, satVars, gcpoints, region>>
    ELSE \E st \in {SyncPass(IF item = NoItem THEN RootItem ELSE item, Identifier, lastChange)} :
            /\ lastCall' = [call EXCEPT !.result = "ok"]
            /\ repeated' = FALSE
            /\ calls' = st.calls
            /\ visited' = st.visited
            /\ gxInstances' = st.gx
            /\ artists' = st.art
            /\ UNCHANGED <<treeVars, timeMarkerIndexes, traj_item_tree>>
            /\ UNCHANGED <<mapVars, satVars, gcpoints, region>>

UpdateFromTrajectoryTree ==
    \E i1 \in Nodes, i2 \in Nodes, c2 \in Columns, lastChange \in Modes :
        update_from_trajectory_tree(<<i1, 0>>, <<i2, c2>>, lastChange)

\* --------------------------------------- actions of the satellite patch
SetSatPatch(op, sp) ==
    /\ trackline' = sp.trackline /\ patch' = sp.patch /\ texts' = sp.texts
    /\ mapArtists' = sp.art
    /\ calls' = sp.calls
    /\ lastCall' = [NoCall EXCEPT !.op = op, !.result = "ok"]
    /\ visited' = <<>>
    /\ repeated' = FALSE
    /\ UNCHANGED <<treeVars, timeMarkerIndexes, traj_item_tree, gxInstances, artists>>
    /\ UNCHANGED <<appearance, kwargs, extent, map_parallels, map_meridians,
                   map_coastlines, map_countries, cntrysegs, map_boundary,
                   map_continents, gcpoints, region>>

SatPatchUpdate ==
    /\ Len(texts) + 2 <= MaxTexts
    /\ SetSatPatch("SatelliteOverpassPatch.update", SatUpdate(SatPatch))
SatPatchRemove ==
    SetSatPatch("SatelliteOverpassPatch.remove", SatRemove(SatPatch))

\* ------------------------------------------------- action of gcpoints2
NoPoints == [args |-> <<>>, error |-> "", points |-> <<>>]
\* No corner computation: neither the graticule range nor the corners kept
\* for the rebuild have been computed.
NoRegion == [args |-> <<>>, out |-> <<>>, bounds |-> <<>>]
Gcpoints2 ==
    \E p1 \in Points, p2 \in Points, d \in 0..MaxDist, del_s \in 0..MaxDelS,
       map_coords \in BOOLEAN :
        /\ (p1 = p2) <=> (d = 0)
        /\ gcpoints' = [args |-> <<p1, p2, d, del_s, map_coords>>,
                        error |-> gcpoints2(p1, p2, d, del_s, map_coords).error,
                        points |-> gcpoints2(p1, p2, d, del_s, map_coords).points]
        /\ lastCall' = [NoCall EXCEPT !.op = "gcpoints2"]
        /\ calls' = <<>>
        /\ visited' = <<>>
        /\ repeated' = FALSE
        /\ UNCHANGED <<treeVars, timeMarkerIndexes, traj_item_tree, gxInstances, artists>>
        /\ UNCHANGED <<mapVars, satVars, region>>

\* --------------------------------------------- action of gcpoints_path
\* The distances of a segment between different waypoints.
SegmentDists == {1, MaxDist}
\* The arguments pass the assert statements of gcpoints_path.
ValidPath(lons, lats) == Len(lons) = Len(lats) /\ Len(lons) > 1
\* The distances gc.inv gives for the segments of a valid path: zero exactly
\* between equal waypoints.
PathDists(lons, lats) ==
    IF ValidPath(lons, lats)
    THEN {ds \in [1..(Len(lons) - 1) -> {0} \cup SegmentDists] :
             \A i \in DOMAIN ds :
                 (ds[i] = 0) <=> (Waypoint(lons, lats, i) = Waypoint(lons, lats, i + 1))}
    ELSE {<<>>}
\* The arguments of a call of gcpoints_path that is about to be made.
PathArgs ==
    {<<lons, lats, ds, del_s, map_coords>> :
        lons \in SeqsUpTo(Lons, MaxWaypoints), lats \in SeqsUpTo(Lats, MaxWaypoints),
        ds \in SeqsUpTo({0} \cup SegmentDists, MaxWaypoints - 1),
        del_s \in 0..MaxDelS, map_coords \in BOOLEAN}
\* The call of gcpoints_path with the arguments held in gcpoints.args.
GcpointsPath ==
    /\ lastCall.op = "none"
    /\ \E r \in {gcpoints_path(gcpoints.args[1], gcpoints.args[2], gcpoints.args[3],
                                gcpoints.args[4], gcpoints.args[5])} :
           gcpoints' = [gcpoints EXCEPT !.error = r.error, !.points = r.points]
    /\ lastCall' = [NoCall EXCEPT !.op = "gcpoints_path"]
    /\ calls' = <<>>
    /\ visited' = <<>>
    /\ repeated' = FALSE
    /\ UNCHANGED <<treeVars, timeMarkerIndexes, traj_item_tree, gxInstances, artists>>
    /\ UNCHANGED <<mapVars, satVars, region>>

\* ------------------------------------------------------ initial states
\* The canvas after MapCanvas(appearance=flags, ...) on a map with the corner
\* differences ext, no tree given.
InitMap(flags, ext) == CanvasIs(__init__(BlankCanvas(ext), Some(flags), ext))
\* No satellite overpass is shown, gcpoints2 was not called and no corner
\* computation is under way.
InitNoPatch ==
    /\ trackline = None /\ patch = None /\ texts = <<>>
    /\ gcpoints = NoPoints
    /\ region = NoRegion
\* A canvas with the default appearance on a map of 55 x 2 degrees.
InitMapDefault == InitMap(default_appearance, [lon |-> 55, lat |-> 2]) /\ InitNoPatch

\* Items as the tree creates them: visible, no graphics property set.
Init ==
    /\ parentOf \in [Nodes -> 0..MaxNodes]
    /\ kind \in [Nodes -> Kinds]
    /\ TreeOK(parentOf, kind)
    /\ general = [n \in Nodes |-> [p \in PropNames |-> None]]
    /\ visibleInView = [n \in Nodes |-> [v \in Views |-> TRUE]]
    /\ timeMarkerIndexes = [n \in Nodes |-> None]
    /\ InitCanvas
    /\ InitMapDefault

\* --------------------------------------------------------------- actions
\* A TypeError that is raised only when the pass has run.
RaisedAfterPass(item, mode) == SyncPass(item, Identifier, mode)
\* What update_trajectory_items has done when it raises the TypeError of
\* line 603: nothing, the test comes before the upward pass (599-603).
RaisedBeforePass(item, mode) ==
    [gx |-> gxInstances, art |-> artists, calls |-> <<>>, visited |-> <<>>]

\* update_trajectory_items(item, mode) (558-750).
update_trajectory_items(item, mode) ==
    LET call == [op |-> "update_trajectory_items", item |-> item,
                 mode |-> mode, result |-> "", args |-> <<>>]
    IN
    IF ~traj_item_tree
    THEN /\ lastCall' = [call EXCEPT !.result = "notree"]
         /\ repeated' = FALSE
         /\ calls' = <<>>
         /\ visited' = <<>>
         /\ UNCHANGED <<treeVars, timeMarkerIndexes, traj_item_tree, gxInstances, artists>>
         /\ UNCHANGED <<mapVars, satVars, gcpoints, region>>
    ELSE IF item /= NoItem /\ ~IsLagrantoMapItem(item)
    THEN \E st \in {RaisedBeforePass(item, mode)} :
            /\ lastCall' = [call EXCEPT !.result = "TypeError"]
            /\ repeated' = FALSE
            /\ calls' = st.calls
            /\ visited' = st.visited
            /\ gxInstances' = st.gx
            /\ artists' = st.art
            /\ UNCHANGED <<treeVars, timeMarkerIndexes, traj_item_tree>>
            /\ UNCHANGED <<mapVars, satVars, gcpoints, region>>
    ELSE \E st \in {SyncPass(IF item = NoItem THEN RootItem ELSE item, Identifier, mode)} :
            /\ lastCall' = [call EXCEPT !.result = "ok"]
            /\ repeated' = (lastCall = [call EXCEPT !.result = "ok"])
            /\ calls' = st.calls
            /\ visited' = st.visited
            /\ gxInstances' = st.gx
            /\ artists' = st.art
            /\ UNCHANGED <<treeVars, timeMarkerIndexes, traj_item_tree>>
            /\ UNCHANGED <<mapVars, satVars, gcpoints, region>>

UpdateTrajectoryItems ==
    \E item \in Nodes \cup {NoItem}, mode \in Modes :
        update_trajectory_items(item, mode)

\* set_trajectory_tree(tree) (514-533): connect the tree and draw its items
\* with update_trajectory_items().
SetTrajectoryTree ==
    \E st \in {SyncPass(RootItem, Identifier, "DRAW_EVERYTHING")} :
       /\ traj_item_tree' = TRUE
       /\ lastCall' = [op |-> "set_trajectory_tree", item |-> NoItem,
                       mode |-> "DRAW_EVERYTHING", result |-> "ok", args |-> <<>>]
       /\ repeated' = FALSE
       /\ calls' = st.calls
       /\ visited' = st.visited
       /\ gxInstances' = st.gx
       /\ artists' = st.art
       /\ UNCHANGED <<treeVars, timeMarkerIndexes>>
       /\ UNCHANGED <<mapVars, satVars, gcpoints, region>>

\* The tree's owner changes the time markers of a flight track or trajectory
\* (what getTimeMarkerIndexes returns).
SetTimeMarkerIndexes ==
    \E n \in Nodes, m \in MarkerValues :
        /\ IsPlottable(n)
        /\ timeMarkerIndexes[n] /= m
        /\ timeMarkerIndexes' = [timeMarkerIndexes EXCEPT ![n] = m]
        /\ lastCall' = [NoCall EXCEPT !.op = "setTimeMarkerIndexes", !.item = n]
        /\ repeated' = FALSE
        /\ calls' = <<>>
        /\ visited' = <<>>
        /\ UNCHANGED <<treeVars, traj_item_tree, gxInstances, artists>>
        /\ UNCHANGED <<mapVars, satVars, gcpoints, region>>

Next == UpdateTrajectoryItems \/ SetTrajectoryTree \/ SetTimeMarkerIndexes

Spec == Init /\ [][Next]_vars

\* ------------------------------------- inputs for the inherited properties
\* A chain root - flight track - trajectory - ..., every plottable item with
\* time markers.
ChainTree ==
    /\ parentOf = [n \in Nodes |-> n - 1]
    /\ kind = [n \in Nodes |-> IF n = RootItem THEN "Root"
                               ELSE IF n = 2 THEN "FlightTrack" ELSE "Trajectory"]
    /\ timeMarkerIndexes = [n \in Nodes |-> IF n = RootItem THEN None ELSE Some({1})]

\* The 'general' properties an item may carry: nothing set, every property
\* set to the false value 0, or every property set to a value of 1..MaxVal.
GenChoice(v) ==
    [p \in PropNames |->
        IF p \in {"colour", "linewidth"} THEN Some(v) ELSE Some(1 + (v % MaxVal))]
GenChoices ==
    {[p \in PropNames |-> None], [p \in PropNames |-> Some(0)]}
        \cup {GenChoice(v) : v \in 1..MaxVal}

InitInherit ==
    /\ ChainTree
    /\ general \in [Nodes -> GenChoices]
    /\ visibleInView = [n \in Nodes |-> [v \in Views |-> TRUE]]
    /\ InitCanvas
    /\ InitMapDefault

InitVisible ==
    /\ ChainTree
    /\ general = [n \in Nodes |-> [p \in PropNames |-> None]]
    /\ visibleInView \in [Nodes -> [Views -> BOOLEAN]]
    /\ InitCanvas
    /\ InitMapDefault

NextDraw == UpdateTrajectoryItems \/ SetTrajectoryTree

SpecInherit == InitInherit /\ [][NextDraw]_vars
SpecVisible == InitVisible /\ [][NextDraw]_vars

\* ------------------------------------------------ inputs for the traversal
\* Every tree shape and kind, every item shown or hidden on the view of the
\* canvas.
InitTraverse ==
    /\ parentOf \in [Nodes -> 0..MaxNodes]
    /\ kind \in [Nodes -> Kinds]
    /\ TreeOK(parentOf, kind)
    /\ general = [n \in Nodes |-> [p \in PropNames |-> None]]
    /\ \E hidden \in SUBSET Nodes :
          visibleInView = [n \in Nodes |-> [v \in Views |->
                              v = OtherView \/ n \notin hidden]]
    /\ timeMarkerIndexes = [n \in Nodes |-> None]
    /\ InitCanvas
    /\ InitMapDefault

SpecTraverse == InitTraverse /\ [][NextDraw]_vars

\* ------------------------------------------- the tree's change signal
NextEvent == SetTrajectoryTree \/ UpdateFromTrajectoryTree
SpecEvent == Init /\ [][NextEvent]_vars

\* ------------------------------------------------------ the map canvas
\* A canvas constructed with any appearance on one of the maps, before the
\* chain tree is connected to it.
InitMapCanvas ==
    /\ ChainTree
    /\ general = [n \in Nodes |-> [p \in PropNames |-> None]]
    /\ visibleInView = [n \in Nodes |-> [v \in Views |-> TRUE]]
    /\ InitCanvas
    /\ \E flags \in [Flags -> BOOLEAN], ext \in MapExtents : InitMap(flags, ext)
    /\ InitNoPatch

NextMap ==
    \/ SetGraticuleVisible
    \/ SetFillcontinentsVisible
    \/ SetCoastlinesVisible
    \/ SetMapboundaryVisible
    \/ UpdateWithCoordinateChange
    \/ SetTrajectoryTree
SpecMap == InitMapCanvas /\ [][NextMap]_vars

\* ------------------------------------------------------ the graticule
\* The corner differences of the maps the graticule is drawn on: every
\* difference up to MaxExtent in one direction, 2 or 55 degrees in the other.
GraticuleExtents ==
    {[lon |-> d, lat |-> l] : d \in 0..MaxExtent, l \in {2, 55}}
        \cup {[lon |-> l, lat |-> d] : d \in 0..MaxExtent, l \in {2, 55}}
InitGraticule ==
    /\ ChainTree
    /\ general = [n \in Nodes |-> [p \in PropNames |-> None]]
    /\ visibleInView = [n \in Nodes |-> [v \in Views |-> TRUE]]
    /\ InitCanvas
    /\ \E ext \in GraticuleExtents :
          InitMap([default_appearance EXCEPT !["draw_graticule"] = FALSE], ext)
    /\ InitNoPatch
SpecGraticule == InitGraticule /\ [][SetGraticuleVisible]_vars

\* ------------------------------------------------ the satellite overpass
\* A SatelliteOverpassPatch constructed on a canvas: __init__ (832-849) has
\* drawn it.
InitSat ==
    /\ ChainTree
    /\ general = [n \in Nodes |-> [p \in PropNames |-> None]]
    /\ visibleInView = [n \in Nodes |-> [v \in Views |-> TRUE]]
    /\ InitCanvas
    /\ gcpoints = NoPoints
    /\ region = NoRegion
    /\ \E flags \in [Flags -> BOOLEAN], ext \in MapExtents :
       \E cv \in {__init__(BlankCanvas(ext), Some(flags), ext)} :
       \E sp \in {SatDraw([trackline |-> None, patch |-> None, texts |-> <<>>,
                           art |-> cv.art, calls |-> <<>>])} :
          /\ CanvasIs([cv EXCEPT !.art = sp.art])
          /\ trackline = sp.trackline /\ patch = sp.patch /\ texts = sp.texts
NextSat == SatPatchUpdate \/ SatPatchRemove
SpecSat == InitSat /\ [][NextSat]_vars

\* ------------------------------------------------------------ gcpoints2
InitGeodesic ==
    /\ ChainTree
    /\ general = [n \in Nodes |-> [p \in PropNames |-> None]]
    /\ visibleInView = [n \in Nodes |-> [v \in Views |-> TRUE]]
    /\ InitCanvas
    /\ InitMapDefault
SpecGeodesic == InitGeodesic /\ [][Gcpoints2]_vars

\* -------------------------------------------------------- gcpoints_path
\* A canvas on which gcpoints_path is about to be called with some waypoints.
InitPath ==
    /\ ChainTree
    /\ general = [n \in Nodes |-> [p \in PropNames |-> None]]
    /\ visibleInView = [n \in Nodes |-> [v \in Views |-> TRUE]]
    /\ InitCanvas
    /\ InitMap(default_appearance, [lon |-> 55, lat |-> 2])
    /\ trackline = None /\ patch = None /\ texts = <<>>
    /\ region = NoRegion
    /\ \E a \in PathArgs :
          /\ a[3] \in PathDists(a[1], a[2])
          /\ gcpoints = [args |-> a, error |-> "", points |-> <<>>]
SpecPath == InitPath /\ [][GcpointsPath]_vars

\* ------------------------------------------------------ the map corners
\* The projections and what the canvas reads for the graticule of a map
\* whose lower left corner is the origin of the projection coordinates and
\* whose upper right corner is at (2, 2): the projection centre left of,
\* inside or right of the map, and below, inside or above it.
RangeArgs ==
    [projection : {"stere", "lcc", "cyl"},
     centre_x : {-1, 1, 3}, centre_y : {-1, 1, 3}, centre_lat : {0, 90},
     llcrnrx : {0}, llcrnry : {0}, urcrnrx : {2}, urcrnry : {2},
     llcrnrlon : {-120, 60}, urcrnrlon : {-120, 60},
     upperLeftCornerLon : {-150, 30}, lowerRightCornerLon : {-150, 30},
     llcrnrlat : {30}, urcrnrlat : {50, 70},
     upperLeftCornerLat : {40, 60}, lowerRightCornerLat : {20, 40},
     middleUpperBoundaryLat : {45, 75}, middleLowerBoundaryLat : {10, 35}]
\* A canvas without graticule on which set_graticule_visible(True) is about
\* to be called.
InitRange ==
    /\ ChainTree
    /\ general = [n \in Nodes |-> [p \in PropNames |-> None]]
    /\ visibleInView = [n \in Nodes |-> [v \in Views |-> TRUE]]
    /\ InitCanvas
    /\ InitMap([default_appearance EXCEPT !["draw_graticule"] = FALSE],
               [lon |-> 55, lat |-> 2])
    /\ trackline = None /\ patch = None /\ texts = <<>>
    /\ gcpoints = NoPoints
    /\ \E a \in RangeArgs : region = [args |-> a, out |-> <<>>, bounds |-> <<>>]
SpecRange == InitRange /\ [][ShowGraticuleFromAxes]_vars

\* Maps in cylindrical projection with corners on both sides of the equator
\* and of the zero meridian, from a map of no width to one wider than eleven
\* times the largest spacing, and 'stere' maps that contain their centre.
CornerLons == {-180, -37, -7, 0, 3, 55, 180, 270}
CornerLats == {-90, -33, 0, 7, 90}
BoundsArgs ==
    [projection : {"cyl", "stere"},
     centre_x : {1}, centre_y : {1}, centre_lat : {90},
     llcrnrx : {0}, llcrnry : {0}, urcrnrx : {2}, urcrnry : {2},
     llcrnrlon : CornerLons, urcrnrlon : CornerLons,
     upperLeftCornerLon : {0}, lowerRightCornerLon : {0},
     llcrnrlat : CornerLats, urcrnrlat : CornerLats,
     upperLeftCornerLat : {0}, lowerRightCornerLat : {0},
     middleUpperBoundaryLat : {0}, middleLowerBoundaryLat : {0}]
InitBounds ==
    /\ ChainTree
    /\ general = [n \in Nodes |-> [p \in PropNames |-> None]]
    /\ visibleInView = [n \in Nodes |-> [v \in Views |-> TRUE]]
    /\ InitCanvas
    /\ InitMap([default_appearance EXCEPT !["draw_graticule"] = FALSE],
               [lon |-> 55, lat |-> 2])
    /\ trackline = None /\ patch = None /\ texts = <<>>
    /\ gcpoints = NoPoints
    /\ \E a \in BoundsArgs : region = [args |-> a, out |-> <<>>, bounds |-> <<>>]
SpecBounds == InitBounds /\ [][ShowGraticuleFromAxes]_vars

\* The corners the inverse projection gives for the axes after a zoom or a
\* pan: the left below the right, the lower below the upper.
CornerArgs ==
    {k \in [projection : {"cyl", "stere"},
            llcrnrlon : {-730, -370, -360, 0, 350, 370},
            urcrnrlon : {-365, -350, 10, 360, 370, 730},
            llcrnrlat : {-100, -90, 0, 95},
            urcrnrlat : {-95, 0, 90, 100}] :
        k.llcrnrlon < k.urcrnrlon /\ k.llcrnrlat < k.urcrnrlat}
\* A canvas on which update_with_coordinate_change() is about to be called
\* after a zoom or a pan.
InitCorners ==
    /\ ChainTree
    /\ general = [n \in Nodes |-> [p \in PropNames |-> None]]
    /\ visibleInView = [n \in Nodes |-> [v \in Views |-> TRUE]]
    /\ InitCanvas
    /\ InitMap(default_appearance, [lon |-> 55, lat |-> 2])
    /\ trackline = None /\ patch = None /\ texts = <<>>
    /\ gcpoints = NoPoints
    /\ \E k \in CornerArgs : region = [args |-> k, out |-> <<>>, bounds |-> <<>>]
SpecCorners == InitCorners /\ [][UpdateFromAxes]_vars

\* ------------------------------------------------------------ properties
\* The last operation was a pass of update_trajectory_items that ran through
\* the tree (called directly or by set_trajectory_tree).
PassDone ==
    /\ lastCall.op \in {"update_trajectory_items", "set_trajectory_tree"}
    /\ lastCall.result = "ok"
StartItem == IF lastCall.item = NoItem THEN RootItem ELSE lastCall.item

RECURSIVE IsAncestorOrSelf(_, _)
IsAncestorOrSelf(a, n) ==
    IF n = NoItem THEN FALSE ELSE n = a \/ IsAncestorOrSelf(a, parentOf[n])
Subtree(x) == {n \in Nodes : IsAncestorOrSelf(x, n)}
VisitedItems == {visited[i][1] : i \in DOMAIN visited}
PushCalls == {j \in DOMAIN calls : calls[j].op \in {"plot", "scatter", "setp"}}
NumHandles(gx) ==
    Cardinality({ne \in Nodes \X Elements : gx[ne[1]][ne[2]][Identifier] /= NoInstance})

\* The value set on the highest level of the path from the root to n.
RECURSIVE HighestTruthy(_, _)
HighestTruthy(n, p) ==
    IF n = NoItem THEN None
    ELSE LET above == HighestTruthy(parentOf[n], p)
         IN IF Truthy(above) THEN above
            ELSE IF Truthy(general[n][p]) THEN general[n][p] ELSE None
HighestLevelValue(n, p) ==
    IF Truthy(HighestTruthy(n, p)) THEN HighestTruthy(n, p) ELSE general[n][p]

\* The nearest value that is not None, walking from n up to the root.
RECURSIVE NearestNonNone(_, _)
NearestNonNone(n, p) ==
    IF n = NoItem THEN None
    ELSE IF general[n][p] /= None THEN general[n][p]
    ELSE NearestNonNone(parentOf[n], p)

\* C1 (as stated): every visited item resolves each property to the nearest
\* non-None value on its way up to the root, its own value first.  Stated for
\* the trees whose items carry no false value (0) besides None.
C1_NearestValueWins ==
    (PassDone /\ \A n \in Nodes, p \in PropNames : general[n][p] /= Some(0)) =>
        \A i \in DOMAIN visited : \A p \in PropNames :
            visited[i][2].gx[p] = NearestNonNone(visited[i][1], p)

\* C1 (amended): every visited item resolves colour, linestyle, linewidth and
\* timeMarkerInterval to the value of the highest level (closest to the root)
\* on its path from the root at which the property is set to a true value, an
\* ancestor's value winning over the item's own; set nowhere, it is the
\* item's own value.  The calls on the artists carry these values.
C1_HighestLevelWins ==
    PassDone =>
        /\ \A i \in DOMAIN visited : \A p \in PropNames :
              visited[i][2].gx[p] = HighestLevelValue(visited[i][1], p)
        /\ \A j \in PushCalls : \A p \in PropNames \cap DOMAIN calls[j].args :
              calls[j].args[p] = HighestLevelValue(calls[j].item, p)

C1_Witness ==
    /\ PassDone
    /\ \E i \in DOMAIN visited :
          /\ Truthy(general[visited[i][1]]["colour"])
          /\ visited[i][2].gx["colour"] /= general[visited[i][1]]["colour"]
          /\ \E j \in PushCalls : calls[j].item = visited[i][1]

\* The AND of the visibility flags of n and of all its ancestors on a view.
RECURSIVE AllVisible(_, _)
AllVisible(n, view) ==
    IF n = NoItem THEN TRUE
    ELSE visibleInView[n][view] /\ AllVisible(parentOf[n], view)

\* C2: the visibility a pass resolves for a visited item and pushes to its
\* artists is the AND of the item's flag and of all its ancestors' flags on
\* the view of the canvas.
C2_VisibilityIsAndOfPath ==
    PassDone =>
        /\ \A i \in DOMAIN visited :
              visited[i][2].visible = AllVisible(visited[i][1], Identifier)
        /\ \A j \in PushCalls :
              calls[j].args.visible = AllVisible(calls[j].item, Identifier)

C2_Witness ==
    /\ PassDone
    /\ \E j \in PushCalls :
          /\ visibleInView[calls[j].item][Identifier]
          /\ ~calls[j].args.visible
          /\ lastCall.item = calls[j].item

C4_MarkerChangeReplacesLine ==
    (PassDone /\ lastCall.mode = "MARKER_CHANGE") =>
        \A n \in VisitedItems : IsPlottable(n) =>
            /\ \E j \in DOMAIN calls : calls[j].item = n /\ calls[j].op = "plot"
            /\ \A j \in DOMAIN calls :
                  calls[j].item = n => calls[j].op \notin {"scatter", "hide"}

\* C4 (amended): in MARKER_CHANGE mode the line of a visited flight track or
\* trajectory is neither removed nor plotted again; in the other draw modes it
\* is removed and plotted once; the time markers are replaced from the
\* item's marker indexes in every draw mode, MARKER_CHANGE included.
C4_MarkerChangeKeepsLine ==
    (PassDone /\ lastCall.mode \in DrawModes) =>
        \A n \in VisitedItems : IsPlottable(n) =>
            LET mine == {j \in DOMAIN calls : calls[j].item = n}
                plots == {j \in mine : calls[j].op = "plot"}
                lineRemoves == {j \in mine : calls[j].op = "remove" /\ calls[j].h[3] = "lineplot"}
                scatters == {j \in mine : calls[j].op = "scatter"}
            IN /\ lastCall.mode = "MARKER_CHANGE" => plots = {} /\ lineRemoves = {}
               /\ lastCall.mode /= "MARKER_CHANGE" =>
                     /\ Cardinality(plots) = 1
                     /\ \A r \in lineRemoves : \A q \in plots : r < q
               /\ (timeMarkerIndexes[n] /= None) <=> (Cardinality(scatters) = 1)

C4_Witness ==
    /\ PassDone
    /\ lastCall.mode = "MARKER_CHANGE"
    /\ \E n \in VisitedItems :
          /\ gxInstances[n]["lineplot"][Identifier] \in artists
          /\ \E j \in DOMAIN calls : calls[j].item = n /\ calls[j].op = "scatter"
          /\ \A j \in DOMAIN calls : calls[j].op /= "plot"

\* C5: after a MARKER_CHANGE pass, for the start item and every flight track or
\* trajectory below it, the old time marker instance of this view is removed
\* and the markers on the canvas are those scattered by this pass from the
\* item's current marker indexes (none when the item has no markers).
C5_MarkerChangeRedrawsMarkers ==
    (PassDone /\ lastCall.mode = "MARKER_CHANGE") =>
        \A n \in Subtree(StartItem) : IsPlottable(n) =>
            LET mine == {j \in DOMAIN calls : calls[j].item = n}
                scatters == {j \in mine : calls[j].op = "scatter"}
                removes == {j \in mine : calls[j].op = "remove"}
                live == {h \in artists : h[1] = n /\ h[2] = Identifier /\ h[3] = "timemarker"}
            IN /\ n \in VisitedItems
               /\ timeMarkerIndexes[n] = None => scatters = {} /\ live = {}
               /\ timeMarkerIndexes[n] /= None =>
                     /\ Cardinality(scatters) = 1
                     /\ \A j \in scatters :
                           /\ calls[j].args.imarker = timeMarkerIndexes[n]
                           /\ calls[j].h = gxInstances[n]["timemarker"][Identifier]
                           /\ live = {calls[j].h}
                           /\ \A r \in removes : r < j

C5_Witness ==
    /\ PassDone
    /\ lastCall.mode = "MARKER_CHANGE"
    /\ \E j, k \in DOMAIN calls :
          /\ j < k
          /\ calls[j].op = "remove" /\ calls[j].h[3] = "timemarker"
          /\ calls[k].op = "scatter" /\ calls[k].item = calls[j].item

\* C6: a GXPROPERTY_CHANGE or VISIBILITY_CHANGE pass leaves the artists on the
\* canvas and the instances stored in the items as they are; it only calls
\* setp on stored instances (visible, colour, linestyle, linewidth of a line,
\* visible, colour of the markers).
C6_UpdateModesKeepArtifacts ==
    [][(lastCall'.op = "update_trajectory_items" /\ lastCall'.mode \in UpdateModes) =>
          /\ artists' = artists
          /\ gxInstances' = gxInstances
          /\ \A j \in DOMAIN calls' :
                /\ calls'[j].op \in {"setp", "draw"}
                /\ calls'[j].op = "setp" =>
                      /\ calls'[j].h = gxInstances[calls'[j].item][calls'[j].h[3]][Identifier]
                      /\ DOMAIN calls'[j].args =
                            IF calls'[j].h[3] = "lineplot"
                            THEN {"visible", "colour", "linestyle", "linewidth"}
                            ELSE {"visible", "colour"}]_vars

C6_Witness ==
    /\ PassDone
    /\ lastCall.mode \in UpdateModes
    /\ \E j, k \in DOMAIN calls :
          /\ calls[j].op = "setp" /\ calls[j].h[3] = "lineplot"
          /\ calls[k].op = "setp" /\ calls[k].h[3] = "timemarker"

\* C7: a DRAW_EVERYTHING pass that repeats the pass before it, with no change
\* of the tree in between, leaves the number of artists on the canvas and the
\* number of instances stored in the items as they were.
C7_RedrawKeepsCounts ==
    [][(repeated' /\ lastCall'.mode = "DRAW_EVERYTHING") =>
          /\ Cardinality(artists') = Cardinality(artists)
          /\ NumHandles(gxInstances') = NumHandles(gxInstances)]_vars

C7_Witness ==
    /\ repeated
    /\ lastCall.mode = "DRAW_EVERYTHING"
    /\ Cardinality(artists) >= 3
    /\ NumHandles(gxInstances) >= 3

NoColourOnPath(n) ==
    \A a \in Nodes : IsAncestorOrSelf(a, n) => general[a]["colour"] = None

\* C8 (as stated): a flight track or trajectory without a colour on itself and
\* on every ancestor is plotted with a colour that is not None.
C8_DefaultColourUsed ==
    (PassDone /\ lastCall.mode = "DRAW_EVERYTHING") =>
        \A j \in DOMAIN calls :
            (calls[j].op = "plot" /\ NoColourOnPath(calls[j].item)) =>
                calls[j].args.colour /= None

\* C8 (amended): a DRAW_EVERYTHING pass plots the line of such an item and
\* stores it, handing the colour None to the plot call: the pass has no
\* default colour of its own.
C8_NoneColourPassedOn ==
    (PassDone /\ lastCall.mode = "DRAW_EVERYTHING") =>
        \A n \in VisitedItems : (IsPlottable(n) /\ NoColourOnPath(n)) =>
            \E j \in DOMAIN calls :
                /\ calls[j].op = "plot" /\ calls[j].item = n
                /\ calls[j].args.colour = None
                /\ calls[j].h \in artists
                /\ calls[j].h = gxInstances[n]["lineplot"][Identifier]

C8_Witness ==
    /\ PassDone
    /\ lastCall.mode = "DRAW_EVERYTHING"
    /\ \E j \in DOMAIN calls :
          /\ calls[j].op = "plot"
          /\ NoColourOnPath(calls[j].item)
          /\ calls[j].args.colour = None
          /\ parentOf[calls[j].item] /= NoItem

C10_OnlyOwnInstancesWritten ==
    [][lastCall'.op \in {"update_trajectory_items", "set_trajectory_tree"} =>
          /\ treeVars' = treeVars
          /\ timeMarkerIndexes' = timeMarkerIndexes
          /\ \A n \in Nodes, e \in Elements, v \in Views :
                /\ gxInstances'[n][e][v] /= gxInstances[n][e][v] =>
                      /\ v = Identifier
                      /\ IsPlottable(n)
                      /\ IsAncestorOrSelf(IF lastCall'.item = NoItem THEN RootItem
                                          ELSE lastCall'.item, n)
                /\ ~IsPlottable(n) => gxInstances'[n][e][v] = NoInstance]_vars

C10_Witness ==
    /\ PassDone
    /\ lastCall.item \notin {NoItem, RootItem}
    /\ \E j \in DOMAIN calls : calls[j].op = "plot" /\ calls[j].item = lastCall.item
    /\ \E m \in Nodes \ Subtree(lastCall.item) :
          /\ gxInstances[m]["lineplot"][Identifier] /= NoInstance
          /\ gxInstances[m]["lineplot"][OtherView] /= NoInstance
    /\ gxInstances[lastCall.item]["lineplot"][OtherView] /= NoInstance

\* The items a pass from x visits: the map items in the subtree of x.
MapItemsBelow(x) == {n \in Subtree(x) : IsLagrantoMapItem(n)}
\* The backend calls a pass in the given mode may issue.
ModeOps(mode) ==
    IF mode \in UpdateModes THEN {"setp", "draw"}
    ELSE IF mode = "MARKER_CHANGE" THEN {"hide", "remove", "scatter", "draw"}
    ELSE {"hide", "remove", "scatter", "plot", "draw"}
EventDone == lastCall.op = "update_from_trajectory_tree"

Layers == {"graticule", "continents", "coastlines", "boundary"}
LayerFlag(l) ==
    CASE l = "graticule" -> "draw_graticule"
      [] l = "continents" -> "fill_continents"
      [] l = "coastlines" -> "draw_coastlines"
      [] l = "boundary" -> "fill_waterbodies"
LayerHandles(l) ==
    CASE l = "graticule" -> {"map_parallels", "map_meridians"}
      [] l = "continents" -> {"map_continents"}
      [] l = "coastlines" -> {"map_coastlines", "map_countries"}
      [] l = "boundary" -> {"map_boundary"}
LayerDraws(l) ==
    CASE l = "graticule" -> {"drawparallels", "drawmeridians"}
      [] l = "continents" -> {"fillcontinents"}
      [] l = "coastlines" -> {"drawcoastlines", "drawcountries"}
      [] l = "boundary" -> {"drawmapboundary"}
\* The canvas after the layer's method is called on cv (an exception of an
\* earlier call is over).
Toggle(cv, l, visible) ==
    CASE l = "graticule" -> set_graticule_visible([cv EXCEPT !.error = ""], visible)
      [] l = "continents" -> set_fillcontinents_visible([cv EXCEPT !.error = ""], visible)
      [] l = "coastlines" -> set_coastlines_visible([cv EXCEPT !.error = ""], visible)
      [] l = "boundary" -> set_mapboundary_visible([cv EXCEPT !.error = ""], visible)
LayerArtists(cv, l) == {a \in cv.art : a[1] \in LayerDraws(l)}
\* Which handles of the layer hold an artist, and how many artists of the
\* layer are on the axes.
Presence(cv, l) ==
    [handles |-> {h \in LayerHandles(l) : IsHandle(cv[h])},
     artists |-> Cardinality(LayerArtists(cv, l))]
\* C12 (as stated): on every canvas and for each of the four layers, the
\* layer's method called with the current value of the layer's flag creates
\* no artist, removes none and leaves the handles as they are; called with
\* False it leaves no artist of the layer and no handle; called with True on
\* a layer that is off it leaves the layer's handles set.
C12_TogglesIdempotent ==
    \A l \in Layers :
        /\ LET same == Toggle(Canvas, l, appearance[LayerFlag(l)])
           IN /\ same.art = mapArtists
              /\ \A h \in LayerHandles(l) : same[h] = Canvas[h]
        /\ LET off == Toggle(Canvas, l, FALSE)
           IN off.error = "" =>
                 /\ LayerArtists(off, l) = {}
                 /\ \A h \in LayerHandles(l) : off[h] = None
        /\ LET on == Toggle(Canvas, l, TRUE)
           IN (~appearance[LayerFlag(l)] /\ on.error = "") =>
                 \A h \in LayerHandles(l) : IsHandle(on[h]) /\ on[h] \in on.art

\* C13: on every canvas and for each of the four layers, switching the layer
\* off and on again (if its flag is on), or on and off again (if its flag is
\* off), leaves as many artists of the layer on the axes as before, and the
\* same handles of the layer set.
C13_ToggleTwiceRestores ==
    \A l \in Layers :
        LET first == Toggle(Canvas, l, ~appearance[LayerFlag(l)])
            second == Toggle(first, l, appearance[LayerFlag(l)])
        IN /\ Presence(second, l) = Presence(Canvas, l)
           /\ second.appearance = appearance
           /\ \A k \in Layers \ {l} : LayerArtists(second, k) = LayerArtists(Canvas, k)

C13_Witness ==
    /\ lastCall.op = "set_coastlines_visible"
    /\ lastCall.args = <<TRUE>>
    /\ \E j \in DOMAIN calls : calls[j].op = "drawcoastlines"
    /\ IsHandle(map_coastlines) /\ IsHandle(map_parallels) /\ IsHandle(map_continents)
    /\ NumBoundaries(mapArtists) >= 2
    /\ Presence(Toggle(Canvas, "boundary", FALSE), "boundary") /= Presence(Canvas, "boundary")

\* C14 (as stated): no failure of the graticule drawing leaves a method of
\* the canvas: switching the graticule and rebuilding the map after a
\* coordinate change always end without an exception.
C14_GraticuleFailureNeverPropagates ==
    lastCall.op \in {"set_graticule_visible", "update_with_coordinate_change"}
        => lastCall.result = "ok"

\* C15 (as stated): a call of update_with_coordinate_change without
\* appearance overrides leaves every layer flag as it was before the call.
C15_RebuildKeepsFlags ==
    [][(lastCall'.op = "update_with_coordinate_change" /\ lastCall'.args = <<None>>)
          => appearance' = appearance]_vars

RebuildDone ==
    /\ lastCall.op = "update_with_coordinate_change"
    /\ lastCall.result = "ok"
\* The call is made for an artist of the tree, on this view.
TreeCall(c) == c.item /= NoItem
\* The call removes or creates an artist of a map layer, or logs the failure
\* of the graticule.
LayerCall(c) == c.item = NoItem /\ c.op /= "draw"
\* The artist is created by a call of the list and not removed afterwards.
CreatedIn(cs, a) ==
    \E j \in DOMAIN cs :
        /\ cs[j].op \in {"plot", "scatter"}
        /\ cs[j].h = a
        /\ \A k \in (j + 1)..Len(cs) : ~(cs[k].op = "remove" /\ cs[k].h = a)

SatArtists == {a \in mapArtists : a[1] \in {"plot", "add_patch", "text"}}

\* C17 (as stated): a drawn SatelliteOverpassPatch (after construction and
\* after every update()) holds one track line, one swath patch and exactly
\* two texts, each of them on the axes; after remove() it holds no handle and
\* none of its artists is on the axes.
C17_PatchHoldsItsFourArtists ==
    /\ lastCall.op /= "SatelliteOverpassPatch.remove" =>
          /\ trackline \in mapArtists
          /\ patch \in mapArtists
          /\ Len(texts) = 2
          /\ \A i \in DOMAIN texts : texts[i] \in mapArtists
    /\ lastCall.op = "SatelliteOverpassPatch.remove" =>
          /\ trackline = None /\ patch = None /\ texts = <<>>
          /\ SatArtists = {}

\* The smallest spacing value that is greater than delta / 11, delta in
\* degrees and the spacing in 1/100 degree.
SmallestSpacingAbove(delta) ==
    CHOOSE sp \in {spacingValues[i] : i \in DOMAIN spacingValues} :
        /\ 11 * sp > 100 * delta
        /\ \A i \in DOMAIN spacingValues :
               11 * spacingValues[i] > 100 * delta => sp <= spacingValues[i]
GraticuleArtists == {a \in mapArtists : a[1] \in {"drawparallels", "drawmeridians"}}
GraticuleSwitchedOn ==
    /\ lastCall.op = "set_graticule_visible"
    /\ lastCall.args = <<TRUE>>

C19_NoSpacingFails ==
    GraticuleSwitchedOn =>
        /\ (extent.lon > 440 \/ extent.lat > 440) => lastCall.result = "IndexError"
        /\ lastCall.result = "IndexError" <=> (extent.lon >= 440 \/ extent.lat >= 440)
        /\ lastCall.result = "IndexError" =>
              /\ GraticuleArtists = {}
              /\ map_parallels = None /\ map_meridians = None
              /\ \A j \in DOMAIN calls : calls[j].op \notin {"drawparallels", "drawmeridians"}

C19_Witness ==
    /\ GraticuleSwitchedOn
    /\ extent.lon > 440
    /\ extent.lat = 55
    /\ lastCall.result = "IndexError"
    /\ GraticuleArtists = {}
    /\ appearance["draw_graticule"]

\* gcpoints2 has been called with the raw longitudes and latitudes as output.
RawGcpointsDone ==
    /\ lastCall.op = "gcpoints2"
    /\ gcpoints.args[5] = FALSE
\* The list starts with the start point and ends with the end point of the
\* call.
EndpointsExact ==
    /\ gcpoints.error = ""
    /\ Len(gcpoints.points) >= 2
    /\ gcpoints.points[1] = gcpoints.args[1]
    /\ gcpoints.points[Len(gcpoints.points)] = gcpoints.args[2]

\* C20 (as stated): for every pair of end points and every del_s, gcpoints2
\* with raw output returns a list that starts with the start point and ends
\* with the end point.
C20_EndpointsForEveryDelS == RawGcpointsDone => EndpointsExact

\* C20 (amended): for every pair of end points and every del_s greater than
\* zero, gcpoints2 with raw output returns the start point, then the
\* int((dist + 500 del_s) / (1000 del_s)) points of the solver in their
\* order, then the end point; with del_s = 0 it raises ZeroDivisionError and
\* returns nothing.
C20_EndpointsForPositiveDelS ==
    RawGcpointsDone =>
        LET p1 == gcpoints.args[1]
            p2 == gcpoints.args[2]
            d == gcpoints.args[3]
            del_s == gcpoints.args[4]
            n == Npoints(d, del_s)
        IN IF del_s > 0
           THEN /\ EndpointsExact
                /\ Len(gcpoints.points) = n + 2
                /\ \A k \in 1..n : gcpoints.points[k + 1] = gc_npts(p1, p2, n)[k]
           ELSE /\ gcpoints.error = "ZeroDivisionError"
                /\ gcpoints.points = <<>>

C20_Witness ==
    /\ RawGcpointsDone
    /\ gcpoints.args[4] > 0
    /\ gcpoints.args[1] /= gcpoints.args[2]
    /\ EndpointsExact
    /\ Len(gcpoints.points) >= 4

PathDone == lastCall.op = "gcpoints_path"
\* The point as longitude and latitude, whether the call returned map
\* coordinates or not.
RawPoint(pt, map_coords) == IF map_coords THEN pt[2] ELSE pt
\* The place of waypoint i in the output: 1 for the first, and after each
\* segment its number of intermediate points and one more.
RECURSIVE JunctionPos(_, _, _)
JunctionPos(ds, del_s, i) ==
    IF i = 1 THEN 1
    ELSE JunctionPos(ds, del_s, i - 1) + Npoints(ds[i - 1], del_s) + 1

\* C21: a call of gcpoints_path that returns gives the first waypoint, then
\* for each segment its intermediate points and its end waypoint: the list
\* has 1 + sum of (n_i + 1) points, waypoint i stands at its junction, the
\* points between two junctions are the solver's points of the segment, and
\* no other place of the list holds a waypoint.
C21_JunctionsOnce ==
    (PathDone /\ gcpoints.error = "") =>
        LET lons == gcpoints.args[1]
            lats == gcpoints.args[2]
            ds == gcpoints.args[3]
            del_s == gcpoints.args[4]
            mc == gcpoints.args[5]
            pts == gcpoints.points
            pos(i) == JunctionPos(ds, del_s, i)
        IN /\ Len(pts) = pos(Len(lons))
           /\ \A i \in DOMAIN lons : RawPoint(pts[pos(i)], mc) = Waypoint(lons, lats, i)
           /\ \A i \in 1..(Len(lons) - 1) : \A m \in 1..Npoints(ds[i], del_s) :
                  RawPoint(pts[pos(i) + m], mc) =
                      gc_npts(Waypoint(lons, lats, i), Waypoint(lons, lats, i + 1),
                              Npoints(ds[i], del_s))[m]
           /\ Cardinality({j \in DOMAIN pts : RawPoint(pts[j], mc)[1] = "lonlat"}) = Len(lons)

C21_Witness ==
    /\ PathDone
    /\ gcpoints.error = ""
    /\ Len(gcpoints.args[1]) = 3
    /\ gcpoints.args[5] = FALSE
    /\ Npoints(gcpoints.args[3][1], gcpoints.args[4]) >= 1
    /\ Npoints(gcpoints.args[3][2], gcpoints.args[4]) >= 1
    /\ Cardinality({j \in DOMAIN gcpoints.points :
                       gcpoints.points[j] = Waypoint(gcpoints.args[1], gcpoints.args[2], 2)}) = 1
    /\ Len(gcpoints.points) >= 5

\* C22: gcpoints2 called with two equal end points and a del_s greater than
\* zero computes no intermediate point and returns the end point twice,
\* without an error.
C22_ZeroDistanceTwoPoints ==
    (lastCall.op = "gcpoints2" /\ gcpoints.args[1] = gcpoints.args[2]
                               /\ gcpoints.args[4] > 0) =>
        /\ gcpoints.args[3] = 0
        /\ Npoints(gcpoints.args[3], gcpoints.args[4]) = 0
        /\ gcpoints.error = ""
        /\ Len(gcpoints.points) = 2
        /\ RawPoint(gcpoints.points[1], gcpoints.args[5]) = gcpoints.args[1]
        /\ RawPoint(gcpoints.points[2], gcpoints.args[5]) = gcpoints.args[1]

C22_Witness ==
    /\ lastCall.op = "gcpoints2"
    /\ gcpoints.args[1] = gcpoints.args[2]
    /\ gcpoints.args[4] = MaxDelS
    /\ gcpoints.error = ""
    /\ gcpoints.points = <<gcpoints.args[1], gcpoints.args[1]>>

\* C23 (as stated): gcpoints_path fails and returns no point whenever fewer
\* than two waypoints are given or the two lists differ in length, and
\* returns its points for every two lists of equal length of at least two.
C23_FailsExactlyOnInvalidLists ==
    PathDone =>
        IF ValidPath(gcpoints.args[1], gcpoints.args[2])
        THEN gcpoints.error = "" /\ Len(gcpoints.points) >= 2
        ELSE gcpoints.error = "AssertionError" /\ gcpoints.points = <<>>

\* C23 (amended): gcpoints_path fails with AssertionError and returns no
\* point whenever fewer than two waypoints are given or the two lists differ
\* in length; for two lists of equal length of at least two it returns its
\* points if del_s is greater than zero and fails with ZeroDivisionError if
\* del_s is zero.
C23_FailsOnInvalidListsOrZeroDelS ==
    PathDone =>
        IF ~ValidPath(gcpoints.args[1], gcpoints.args[2])
        THEN gcpoints.error = "AssertionError" /\ gcpoints.points = <<>>
        ELSE IF gcpoints.args[4] > 0
        THEN gcpoints.error = "" /\ Len(gcpoints.points) >= 2
        ELSE gcpoints.error = "ZeroDivisionError" /\ gcpoints.points = <<>>

C23_Witness ==
    /\ PathDone
    /\ Len(gcpoints.args[1]) = 2
    /\ Len(gcpoints.args[2]) = 3
    /\ gcpoints.args[4] > 0
    /\ gcpoints.error = "AssertionError"
    /\ gcpoints.points = <<>>

\* set_graticule_visible(True) has computed the range of the graticule for a
\* 'stere' or 'lcc' map.
ConformalRangeDone ==
    /\ lastCall.op = "set_graticule_visible"
    /\ region.out /= <<>>
    /\ region.args.projection \in {"stere", "lcc"}
\* The projection centre lies inside the four edges of the map.
CentreInsideMap(a) ==
    /\ a.llcrnrx < a.centre_x /\ a.centre_x < a.urcrnrx
    /\ a.llcrnry < a.centre_y /\ a.centre_y < a.urcrnry

\* C24 (as stated): for 'stere' and 'lcc' maps the meridians run from -180 to
\* 180 and the latitudes include the centre latitude exactly if the
\* projection centre lies inside the four edges of the map; otherwise the
\* longitudes run from the smallest to the largest of the four corner
\* longitudes and the latitudes from the smallest to the largest of the
\* latitudes of the four corners and the two boundary middles.
C24_FullCircleIffCentreInside ==
    ConformalRangeDone =>
        LET a == region.args
            r == region.out
            lons == {a.upperLeftCornerLon, a.llcrnrlon, a.urcrnrlon, a.lowerRightCornerLon}
            lats == {a.middleLowerBoundaryLat, a.lowerRightCornerLat, a.llcrnrlat,
                     a.middleUpperBoundaryLat, a.upperLeftCornerLat, a.urcrnrlat}
        IN IF CentreInsideMap(a)
           THEN /\ r.mapLonStart = -180 /\ r.mapLonStop = 180
                /\ r.mapLatStart = SetMin(lats \cup {a.centre_lat})
                /\ r.mapLatStop = SetMax(lats \cup {a.centre_lat})
           ELSE /\ r.mapLonStart = SetMin(lons) /\ r.mapLonStop = SetMax(lons)
                /\ r.mapLatStart = SetMin(lats) /\ r.mapLatStop = SetMax(lats)

\* C25 (as stated): for the cylindrical projection the corners kept by
\* update_with_coordinate_change have both latitudes between -90 and 90 and
\* both longitudes between -360 and 360, and the two longitudes are moved
\* together.
C25_CornersInDomain ==
    (lastCall.op = "update_with_coordinate_change" /\ region.out /= <<>>
                                                   /\ region.args.projection = "cyl") =>
        LET k == region.out
        IN /\ -90 <= k.llcrnrlat /\ k.llcrnrlat <= 90
           /\ -90 <= k.urcrnrlat /\ k.urcrnrlat <= 90
           /\ -360 <= k.llcrnrlon /\ k.llcrnrlon <= 360
           /\ -360 <= k.urcrnrlon /\ k.urcrnrlon <= 360
           /\ k.urcrnrlon - k.llcrnrlon = region.args.urcrnrlon - region.args.llcrnrlon

\* The instances the items hold for the view, and the tree artists of the
\* view on the axes.
StoredInstances(view) ==
    {getInstance(gxInstances, n, e, view) : n \in Nodes, e \in Elements} \ {NoInstance}
LiveTreeArtists(view) == {a \in artists : a[2] = view}

\* C26 (as stated): after every sequence of passes and marker changes, the
\* instances the items hold for the view of the canvas are exactly the tree
\* artists of that view on the axes: none of them has been removed, and no
\* artist on the axes is without an item that holds it.
C26_StoredInstancesAreLive == StoredInstances(Identifier) = LiveTreeArtists(Identifier)

\* The artists the handles of the layer hold.
HeldArtists(cv, l) == {cv[h] : h \in {k \in LayerHandles(l) : IsHandle(cv[k])}}

\* C27 (as stated): after every sequence of calls of the layer methods the
\* artists of each layer on the axes are those its handles hold: no artist
\* of a layer stays on the axes after its handle was overwritten or set to
\* None.
C27_OnlyHeldArtistsOnAxes ==
    \A l \in Layers : LayerArtists(Canvas, l) = HeldArtists(Canvas, l)

\* The graticule could not be drawn: no spacing value fits the corner
\* differences of the map, or the handles were never assigned.
GraticuleFailed ==
    \/ SpacingCandidates(extent.lon) = <<>>
    \/ SpacingCandidates(extent.lat) = <<>>
    \/ map_parallels = Unset

C29_TypeErrorBeforeAnyEffect ==
    [][(lastCall'.op = "update_trajectory_items" /\ lastCall'.result = "TypeError")
          => /\ calls' = <<>>
             /\ visited' = <<>>
             /\ gxInstances' = gxInstances
             /\ artists' = artists
             /\ mapArtists' = mapArtists]_vars

C29_Witness ==
    /\ lastCall.op = "update_trajectory_items"
    /\ lastCall.result = "TypeError"
    /\ kind[lastCall.item] = "Variable"
    /\ lastCall.mode = "DRAW_EVERYTHING"
    /\ traj_item_tree
    /\ LiveTreeArtists(Identifier) /= {}
    /\ calls = <<>>

VisitedOnce ==
    \A i, j \in DOMAIN visited : visited[i][1] = visited[j][1] => i = j

BoundsDone ==
    /\ lastCall.op = "set_graticule_visible"
    /\ region.bounds /= <<>>
    /\ region.bounds /= None
\* lo and hi are whole multiples of the spacing, lo at or below start and
\* less than one spacing below it, hi at or above stop and less than one
\* spacing above it (start and stop in degrees, the rest in 1/100 degree).
Encloses(lo, hi, spacing, start, stop) ==
    /\ \E n \in -(40000 \div spacing)..(40000 \div spacing) : lo = n * spacing
    /\ \E n \in -(40000 \div spacing)..(40000 \div spacing) : hi = n * spacing
    /\ lo <= 100 * start /\ 100 * start < lo + spacing
    /\ hi >= 100 * stop /\ 100 * stop > hi - spacing

SegmentDone ==
    /\ lastCall.op = "gcpoints2"
    /\ gcpoints.args[4] > 0

\* C33: for a segment of dist metres (d * 500 here) and a del_s greater
\* than zero, gcpoints2 puts n points of the solver between the end points,
\* where n is the whole number with n <= (dist + 500 del_s) / (1000 del_s)
\* < n + 1; the n + 1 intervals of dist / (n + 1) metres are not longer than
\* del_s kilometres.
C33_PointCountKeepsSpacing ==
    SegmentDone =>
        LET p1 == gcpoints.args[1]
            p2 == gcpoints.args[2]
            dist == 500 * gcpoints.args[3]
            del_s == gcpoints.args[4]
            n == Len(gcpoints.points) - 2
        IN /\ gcpoints.error = ""
           /\ n >= 0
           /\ n * 1000 * del_s <= dist + 500 * del_s
           /\ dist + 500 * del_s < (n + 1) * 1000 * del_s
           /\ \A k \in 1..n :
                 RawPoint(gcpoints.points[k + 1], gcpoints.args[5]) =
                     <<"npts", p1, p2, n, k>>
           /\ dist <= (n + 1) * 1000 * del_s

C33_Witness ==
    /\ SegmentDone
    /\ gcpoints.args[3] = 3
    /\ gcpoints.args[4] = 1
    /\ Len(gcpoints.points) = 4

====
